---- MODULE Spec2Model ----
(***************************************************************************)
(* A model of the Nix store engine: the metadata store (store.cc, kept in  *)
(* doc/manual/build-farm.xml of this tree) and the build coordinator       *)
(* (build.cc, unnamed/part_001).                                           *)
(***************************************************************************)
EXTENDS Integers, Sequences, FiniteSets, TLC

(***************************************************************************)
(* The universe: four derivations and the store paths they mention.        *)
(***************************************************************************)
DrvPaths == {"dA", "dB", "dC", "dE"}
OutPaths == {"a1", "a2", "b", "e"}
SrcPaths == {"s"}
\* The store path of a source that no derivation uses.
OtherPaths == {"t"}
Paths == DrvPaths \cup OutPaths \cup SrcPaths \cup OtherPaths

\* The derivations stored at the derivation paths (derivationFromPath).
\* dB and dC are two fixed-output derivations of the same output path.
Derivations ==
    [d \in DrvPaths |->
        CASE d = "dA" -> [outputs |-> {"a1", "a2"}, inputDrvs |-> {},
                          inputOuts |-> {}, inputSrcs |-> {"s"}, fixed |-> FALSE]
          [] d = "dB" -> [outputs |-> {"b"}, inputDrvs |-> {"dA"},
                          inputOuts |-> {"a1"}, inputSrcs |-> {}, fixed |-> TRUE]
          [] d = "dC" -> [outputs |-> {"b"}, inputDrvs |-> {},
                          inputOuts |-> {}, inputSrcs |-> {"s"}, fixed |-> TRUE]
          [] d = "dE" -> [outputs |-> {"e"}, inputDrvs |-> {},
                          inputOuts |-> {}, inputSrcs |-> {}, fixed |-> FALSE]]

outputPaths(d) == Derivations[d].outputs

\* The outputs in the order of the DerivationOutputs map.
outputList(d) ==
    CASE d = "dA" -> <<"a1", "a2">>
      [] d = "dB" -> <<"b">>
      [] d = "dC" -> <<"b">>
      [] d = "dE" -> <<"e">>

\* The substitutes that can be registered; Substitute::operator == compares
\* program and args only.
Programs == {"p1", "p2"}
Substitutes ==
    {[deriver |-> "", program |-> "p1"], [deriver |-> "dA", program |-> "p2"]}
SubstEq(x, y) == x.program = y.program

\* Bounds of the metadata-store specification.
MaxStoreOps == 3

VARIABLES
    db,         \* the committed tables of the Nix database
    disk,       \* the store paths that exist in the file system
    txn,        \* the open transaction of the registering process (or NoTxn)
    bld,        \* a build in another process: prepareBuild .. computeClosure
    sbt,        \* a substitution in another process: init .. finished
    nOps,       \* number of store operations performed
    wk,         \* the Worker of this process and its goals
    procs,      \* the goals of several processes that take path locks
    glob,       \* this process: readOnlyMode, openDB done, and how its last
                \* store operation ended
    farm        \* the build-remote hooks and the locks of NIX_CURRENT_LOAD

storeVars == <<db, disk, txn, bld, sbt, nOps>>
vars == <<db, disk, txn, bld, sbt, nOps, wk, procs, glob, farm>>

(***************************************************************************)
(* The database tables.                                                    *)
(***************************************************************************)
NoTxn == [open |-> FALSE]

\* No Worker exists (static bool working = false).
NoWorker == [run |-> "none"]

\* No process with a goal that takes locks is modelled.
NoProcs == <<>>

\* No build-remote hook is modelled.
NoFarm == <<>>

\* The store globals of a process whose openDB succeeded.
Opened == [readOnlyMode |-> FALSE, opened |-> TRUE, outcome |-> "none"]

EmptyDB ==
    [validPaths  |-> {},
     references  |-> [p \in Paths |-> {}],
     referers    |-> [p \in Paths |-> {}],
     substitutes |-> [p \in Paths |-> <<>>],
     derivers    |-> [p \in Paths |-> ""]]

\* The result of an operation inside a transaction: the transaction's new
\* view, or an exception (the transaction is then dropped, not committed).
Throw == [ok |-> FALSE]
Ok(t) == [ok |-> TRUE, db |-> t]

isValidPathTxn(t, path) == path \in t.validPaths

readSubstitutes(t, srcPath) == t.substitutes[srcPath]

querySubstitutes(t, srcPath) == readSubstitutes(t, srcPath)

isRealisablePath(t, path) ==
    isValidPathTxn(t, path) \/ Len(readSubstitutes(t, path)) > 0

getReferers(t, storePath) == t.referers[storePath]

setReferences(t, storePath, refs) ==
    IF ~isRealisablePath(t, storePath) THEN Throw
    ELSE LET oldReferences == t.references[storePath]
             t1 == [t EXCEPT !.references[storePath] = refs]
             t2 == [t1 EXCEPT !.referers =
                       [q \in Paths |-> IF q \in refs
                                        THEN t1.referers[q] \cup {storePath}
                                        ELSE t1.referers[q]]]
             t3 == [t2 EXCEPT !.referers =
                       [q \in Paths |-> IF q \in oldReferences /\ q \notin refs
                                        THEN t2.referers[q] \ {storePath}
                                        ELSE t2.referers[q]]]
         IN  Ok(t3)

setDeriver(t, storePath, deriver) ==
    IF deriver = "" THEN Ok(t)
    ELSE IF ~isRealisablePath(t, storePath) THEN Throw
    ELSE Ok([t EXCEPT !.derivers[storePath] = deriver])

queryDeriver(t, storePath) == t.derivers[storePath]

setHash(t, storePath) == [t EXCEPT !.validPaths = @ \cup {storePath}]

\* registerValidPath(txn, path, hash, references, deriver)
registerValidPath(t, path, refs, deriver) ==
    LET t1 == setHash(t, path)
        r2 == setReferences(t1, path, refs)
    IN  IF ~r2.ok THEN Throw
        ELSE IF \E i \in refs : ~isValidPathTxn(r2.db, i) THEN Throw
        ELSE setDeriver(r2.db, path, deriver)

\* registerValidPath(txn, path, hash), as build.cc calls it: the content
\* hash only.
registerValidPathHash(t, path) == Ok(setHash(t, path))

invalidatePath(t, path) ==
    LET t1 == IF Len(querySubstitutes(t, path)) = 0
              THEN LET r == setReferences(t, path, {})
                   IN  IF r.ok THEN Ok([r.db EXCEPT !.derivers[path] = ""])
                       ELSE Throw
              ELSE Ok(t)
    IN  IF ~t1.ok THEN Throw
        ELSE Ok([t1.db EXCEPT !.validPaths = @ \ {path}])

\* std::remove(first, last, value) on a list, without erase: the elements
\* that are kept move to the front, the container keeps its length and the
\* tail keeps the values it had.
stdRemove(subs, sub) ==
    LET kept == SelectSeq(subs, LAMBDA x : ~SubstEq(x, sub))
    IN  [i \in 1..Len(subs) |-> IF i <= Len(kept) THEN kept[i] ELSE subs[i]]

registerSubstitute(t, srcPath, sub) ==
    Ok([t EXCEPT !.substitutes[srcPath] = <<sub>> \o stdRemove(@, sub)])

clearSubstitutesTxn(t) ==
    Ok([t EXCEPT !.substitutes = [p \in Paths |-> <<>>]])

RECURSIVE invalidateAll(_, _)
invalidateAll(t, ps) ==
    IF ps = {} THEN t
    ELSE LET p == CHOOSE x \in ps : TRUE
             r == invalidatePath(t, p)
         IN  invalidateAll(IF r.ok THEN r.db ELSE t, ps \ {p})

\* verifyStore: one transaction over all tables.
verifyStoreTxn(t, onDisk) ==
    LET gone == {p \in t.validPaths : p \notin onDisk}
        t1 == invalidateAll(t, gone)
        validPaths == t.validPaths \ gone
        usablePaths == validPaths \cup
                       {p \in Paths : Len(readSubstitutes(t1, p)) > 0}
        t2 == [t1 EXCEPT !.derivers =
                  [p \in Paths |-> IF p \in usablePaths THEN t1.derivers[p] ELSE ""]]
        t3 == [t2 EXCEPT !.references =
                  [p \in Paths |-> IF p \in usablePaths THEN t2.references[p] ELSE {}]]
        t4 == [t3 EXCEPT !.referers =
                  [p \in Paths |-> IF p \in usablePaths THEN t3.referers[p] ELSE {}]]
    IN  Ok(t4)

\* computeFSClosure: the paths reachable from root through references.
RECURSIVE closureFrom(_, _, _)
closureFrom(t, todo, seen) ==
    IF todo = {} THEN seen
    ELSE LET p == CHOOSE x \in todo : TRUE
             new == t.references[p] \ (seen \cup {p})
         IN  closureFrom(t, (todo \ {p}) \cup new, seen \cup {p})

computeFSClosure(t, root) == closureFrom(t, {root}, {})

(***************************************************************************)
(* The metadata store under operations of several processes.               *)
(***************************************************************************)
\* The paths the store operations are applied to.
StorePaths == {"a1", "a2", "s"}

\* The derivation built by the other process.
StoreDrvs == {"dA"}

\* The paths for which substitutes get registered.
SubstitutablePaths == {"a1", "a2"}

\* What the scan of the built outputs can find: a2 mentioned by a1 (a path
\* registered later in the loop), by itself, by both or by neither.
ScanResults == [outputPaths("dA") -> {{}, {"a2"}}]

Idle == [pc |-> "idle"]

\* The stores a process starts on: a new one, and one that holds the
\* derivation dA and its source s.
InitialStores ==
    {EmptyDB,
     [EmptyDB EXCEPT !.validPaths = {"dA", "s"},
                     !.references["dA"] = {"s"},
                     !.referers["s"] = {"dA"}]}

StoreInit ==
    /\ db \in InitialStores
    /\ disk = db.validPaths
    /\ txn = NoTxn
    /\ bld = Idle
    /\ sbt = Idle
    /\ nOps = 0
    /\ wk = NoWorker
    /\ procs = NoProcs
    /\ \E readOnlyMode \in BOOLEAN :
          glob = [Opened EXCEPT !.readOnlyMode = readOnlyMode, !.opened = FALSE]
    /\ farm = NoFarm

\* openDB; permission tells whether this user may access the database
\* (nixDB.open raises DbNoPermission if not).
openDB(permission) ==
    /\ ~glob.opened
    /\ glob' = [glob EXCEPT !.opened = TRUE, !.outcome = "returned",
                            !.readOnlyMode = @ \/ ~permission]
    /\ UNCHANGED <<db, disk, txn, bld, sbt, nOps, wk, procs, farm>>

\* Transaction txn(nixDB) of a process that runs without the database: the
\* operation ends with an error.
TransactionFails == glob.readOnlyMode

\* The store operation of this process ends, with an exception or not.
Ended(ok) == glob' = [glob EXCEPT !.outcome = IF ok THEN "returned" ELSE "error"]

\* Transaction txn(nixDB); ...; txn.commit(): an exception drops the
\* transaction and leaves the committed tables as they were.
commit(r) == db' = IF r.ok THEN r.db ELSE db

CanOperate == glob.opened /\ ~txn.open /\ nOps < MaxStoreOps

Operated == nOps' = nOps + 1 /\ UNCHANGED <<txn, bld, sbt, wk, procs, farm>>

\* addToStore that looks at the database also in read-only mode.
addToStore_ignoresReadOnly(dstPath) ==
    /\ CanOperate
    /\ IF ~isValidPathTxn(db, dstPath)
       THEN LET r == registerValidPath(db, dstPath, {}, "")
            IN  /\ disk' = disk \cup {dstPath}
                /\ commit(r)
                /\ Ended(r.ok)
       ELSE UNCHANGED <<db, disk>> /\ Ended(TRUE)
    /\ Operated

addToStore(dstPath) ==
    /\ CanOperate
    /\ IF ~glob.readOnlyMode /\ ~isValidPathTxn(db, dstPath)
       THEN LET r == registerValidPath(db, dstPath, {}, "")
            IN  /\ disk' = disk \cup {dstPath}
                /\ commit(r)
                /\ Ended(r.ok)
       ELSE UNCHANGED <<db, disk>> /\ Ended(TRUE)
    /\ Operated

addTextToStore(dstPath, refs) ==
    /\ CanOperate
    /\ IF ~glob.readOnlyMode /\ ~isValidPathTxn(db, dstPath)
       THEN LET r == registerValidPath(db, dstPath, refs, "")
            IN  /\ disk' = disk \cup {dstPath}
                /\ commit(r)
                /\ Ended(r.ok)
       ELSE UNCHANGED <<db, disk>> /\ Ended(TRUE)
    /\ Operated

SetReferences(storePath, refs) ==
    /\ CanOperate
    /\ IF TransactionFails
       THEN UNCHANGED db /\ Ended(FALSE)
       ELSE LET r == setReferences(db, storePath, refs)
            IN  commit(r) /\ Ended(r.ok)
    /\ UNCHANGED disk
    /\ Operated

RegisterSubstitute(srcPath, sub) ==
    /\ CanOperate
    /\ IF TransactionFails
       THEN UNCHANGED db /\ Ended(FALSE)
       ELSE LET r == registerSubstitute(db, srcPath, sub)
            IN  commit(r) /\ Ended(r.ok)
    /\ UNCHANGED disk
    /\ Operated

clearSubstitutes ==
    /\ CanOperate
    /\ IF TransactionFails
       THEN UNCHANGED db /\ Ended(FALSE)
       ELSE LET r == clearSubstitutesTxn(db)
            IN  commit(r) /\ Ended(r.ok)
    /\ UNCHANGED disk
    /\ Operated

deleteFromStore(path) ==
    /\ CanOperate
    /\ IF TransactionFails
       THEN UNCHANGED <<db, disk>> /\ Ended(FALSE)
       ELSE IF isValidPathTxn(db, path)
       THEN LET referers == getReferers(db, path)
            IN  IF Cardinality(referers) > 1
                   \/ (Cardinality(referers) = 1 /\ referers # {path})
                THEN UNCHANGED <<db, disk>> /\ Ended(FALSE)
                ELSE LET r == invalidatePath(db, path)
                     IN  /\ commit(r)
                         /\ disk' = IF r.ok THEN disk \ {path} ELSE disk
                         /\ Ended(r.ok)
       ELSE /\ UNCHANGED db
            /\ disk' = disk \ {path}
            /\ Ended(TRUE)
    /\ Operated

\* verifyStore; disappeared are the valid paths whose files have been
\* removed behind the back of Nix since the last operation ("path
\* disappeared").
verifyStore(disappeared) ==
    /\ CanOperate
    /\ disappeared \subseteq db.validPaths \cap disk
    /\ disk' = disk \ disappeared
    /\ IF TransactionFails
       THEN UNCHANGED db /\ Ended(FALSE)
       ELSE LET r == verifyStoreTxn(db, disk')
            IN  commit(r) /\ Ended(r.ok)
    /\ Operated

\* checkPathValidity(returnValid) of the goal of derivation d.
checkPathValidity(t, d, returnValid) ==
    {p \in outputPaths(d) : isValidPathTxn(t, p) = returnValid}

\* prepareBuild: the closures of the requested outputs of the input
\* derivations; allPaths is filled before the input sources are added.
inputDrvClosure(t, d) ==
    UNION {computeFSClosure(t, o) : o \in Derivations[d].inputOuts}

prepareAllPaths(t, d) == outputPaths(d) \cup inputDrvClosure(t, d)

prepareInputPaths(t, d) ==
    inputDrvClosure(t, d) \cup
    UNION {computeFSClosure(t, i) : i \in Derivations[d].inputSrcs}

\* The paths locked by the build and by the substitution of the other
\* processes.
BuildLocks ==
    IF bld.pc \in {"building", "registering"} THEN outputPaths(bld.drv) ELSE {}

SubstLocks == IF sbt.pc = "running" THEN {sbt.path} ELSE {}

\* A process reaches prepareBuild for derivation d (its inputs are realised),
\* takes the output locks and checks the outputs again.
BuildPrepare(d) ==
    /\ bld.pc = "idle" /\ ~txn.open
    /\ isValidPathTxn(db, d)
    /\ \A i \in Derivations[d].inputSrcs \cup Derivations[d].inputOuts :
           isValidPathTxn(db, i)
    /\ outputPaths(d) \cap SubstLocks = {}
    /\ bld' = IF checkPathValidity(db, d, TRUE) # {}
              THEN [pc |-> "skipped"]
              ELSE [pc |-> "building", drv |-> d, i |-> 1,
                    allPaths |-> prepareAllPaths(db, d),
                    refs |-> [o \in outputPaths(d) |-> {}]]
    /\ UNCHANGED <<db, disk, txn, sbt, nOps, wk, procs, glob, farm>>

\* The builder has written every output; computeClosure scans each output
\* for the paths of allPaths and opens the transaction.
ClosureScan(refs) ==
    /\ bld.pc = "building" /\ ~txn.open
    /\ disk' = disk \cup outputPaths(bld.drv)
    /\ bld' = [bld EXCEPT !.pc = "registering", !.refs = refs]
    /\ txn' = [open |-> TRUE, view |-> db]
    /\ UNCHANGED <<db, sbt, nOps, wk, procs, glob, farm>>

\* One round of the registration loop of computeClosure, written to the
\* tables at once instead of to the transaction.
ClosureRegister_autocommit ==
    /\ bld.pc = "registering" /\ bld.i <= Len(outputList(bld.drv))
    /\ LET o == outputList(bld.drv)[bld.i]
           r == setReferences(registerValidPathHash(txn.view, o).db, o, bld.refs[o])
       IN  /\ txn' = [txn EXCEPT !.view = r.db]
           /\ db' = r.db
    /\ bld' = [bld EXCEPT !.i = @ + 1]
    /\ UNCHANGED <<disk, sbt, nOps, wk, procs, glob, farm>>

\* One round of the registration loop of computeClosure.
ClosureRegister ==
    /\ bld.pc = "registering" /\ bld.i <= Len(outputList(bld.drv))
    /\ LET o == outputList(bld.drv)[bld.i]
           r == setReferences(registerValidPathHash(txn.view, o).db, o, bld.refs[o])
       IN  txn' = [txn EXCEPT !.view = r.db]
    /\ bld' = [bld EXCEPT !.i = @ + 1]
    /\ UNCHANGED <<db, disk, sbt, nOps, wk, procs, glob, farm>>

\* txn.commit() after the loop.
ClosureCommit ==
    /\ bld.pc = "registering" /\ bld.i > Len(outputList(bld.drv))
    /\ db' = txn.view
    /\ txn' = NoTxn
    /\ bld' = [bld EXCEPT !.pc = "done"]
    /\ UNCHANGED <<disk, sbt, nOps, wk, procs, glob, farm>>

\* The building process dies: its open transaction is dropped and its
\* locks are released.
Crash ==
    /\ bld.pc \in {"building", "registering"}
    /\ txn' = NoTxn
    /\ bld' = [bld EXCEPT !.pc = "crashed"]
    /\ UNCHANGED <<db, disk, sbt, nOps, wk, procs, glob, farm>>

\* SubstitutionGoal::init in another process.
SubstInit(p) ==
    /\ sbt.pc = "idle" /\ ~txn.open
    /\ ~isValidPathTxn(db, p)
    /\ isRealisablePath(db, p)
    /\ sbt' = [pc |-> "referencesValid", path |-> p,
               references |-> db.references[p]]
    /\ UNCHANGED <<db, disk, txn, bld, nOps, wk, procs, glob, farm>>

\* referencesValid .. tryToRun: the references have been realised, the lock
\* is taken and the path checked again.
SubstTryToRun ==
    /\ sbt.pc = "referencesValid" /\ ~txn.open
    /\ \A i \in sbt.references : isValidPathTxn(db, i)
    /\ Len(querySubstitutes(db, sbt.path)) > 0
    /\ sbt.path \notin BuildLocks
    /\ IF isValidPathTxn(db, sbt.path)
       THEN sbt' = [sbt EXCEPT !.pc = "done"] /\ UNCHANGED disk
       ELSE sbt' = [sbt EXCEPT !.pc = "running"] /\ disk' = disk \ {sbt.path}
    /\ UNCHANGED <<db, txn, bld, nOps, wk, procs, glob, farm>>

\* SubstitutionGoal::finished: the substituter produced the path.
SubstFinished ==
    /\ sbt.pc = "running" /\ ~txn.open
    /\ disk' = disk \cup {sbt.path}
    /\ commit(registerValidPathHash(db, sbt.path))
    /\ sbt' = [sbt EXCEPT !.pc = "done"]
    /\ UNCHANGED <<txn, bld, nOps, wk, procs, glob, farm>>

StoreNext ==
    \/ \E permission \in BOOLEAN : openDB(permission)
    \/ \E p \in SrcPaths : addToStore(p)
    \/ \E p \in StoreDrvs, refs \in SUBSET SrcPaths : addTextToStore(p, refs)
    \/ \E p \in StorePaths, refs \in SUBSET StorePaths : SetReferences(p, refs)
    \/ \E p \in SubstitutablePaths, sub \in Substitutes : RegisterSubstitute(p, sub)
    \/ clearSubstitutes
    \/ \E p \in StorePaths \cup StoreDrvs : deleteFromStore(p)
    \/ \E disappeared \in SUBSET SubstitutablePaths : verifyStore(disappeared)
    \/ \E d \in StoreDrvs : BuildPrepare(d)
    \/ \E refs \in ScanResults : ClosureScan(refs)
    \/ ClosureRegister
    \/ ClosureCommit
    \/ Crash
    \/ \E p \in StorePaths : SubstInit(p)
    \/ SubstTryToRun
    \/ SubstFinished

SpecStore == StoreInit /\ [][StoreNext]_vars

(***************************************************************************)
(* The build coordinator: Worker and Goals.                                *)
(*                                                                         *)
(* A handler (one call of a goal's state function from Worker::run) is     *)
(* computed on a record M of everything it can change; the action that     *)
(* performs it installs the result.  M.fault is "none", or "throw" when an *)
(* exception left the handler, or "abort" when an assertion failed.        *)
(***************************************************************************)
DrvGoal(drvPath) == [k |-> "drv", p |-> drvPath]
SubGoal(storePath) == [k |-> "sub", p |-> storePath]
PseudoGoal == [k |-> "pseudo", p |-> ""]

GoalIds == {DrvGoal(d) : d \in DrvPaths} \cup {SubGoal(q) : q \in Paths}
          \cup {PseudoGoal}

\* The paths a goal produces and locks: the output paths of a derivation
\* goal, the store path of a substitution goal.
GoalLockPaths(g) == IF g.k = "drv" THEN outputPaths(g.p) ELSE {g.p}

\* A slot of the goal maps that holds no goal (an expired weak pointer).
NoGoal ==
    [alive |-> FALSE, state |-> "init", waitees |-> {}, waiters |-> {},
     pending |-> {}, nrFailed |-> 0, done |-> FALSE, exit |-> "none",
     locks |-> {}, allPaths |-> {}, inputPaths |-> {},
     subs |-> <<>>, sub |-> [deriver |-> "", program |-> ""],
     references |-> {}]

\* Goal::Goal, DerivationGoal::DerivationGoal, SubstitutionGoal::SubstitutionGoal
NewGoal == [NoGoal EXCEPT !.alive = TRUE]

\* Worker::wakeUp
wakeUp(M, g) == [M EXCEPT !.awake = @ \cup {g}]

\* addGoal<T> that wakes the goal up whether it is new or not.
addGoal_alwaysWakes(M, g) ==
    wakeUp(IF M.goal[g].alive THEN M ELSE [M EXCEPT !.goal[g] = NewGoal], g)

\* addGoal<T>: the goal of the map if it is still alive, else a new one,
\* which is woken up.
addGoal(M, g) ==
    IF M.goal[g].alive THEN M
    ELSE wakeUp([M EXCEPT !.goal[g] = NewGoal], g)

\* Goal::addWaitee(worker.make...Goal(path)).  pending is the set of added
\* waitees that have not completed (waitees without the clear()).
addWaitee(M, g, waitee) ==
    LET M1 == addGoal(M, waitee)
        M2 == [M1 EXCEPT !.goal[g].waitees = @ \cup {waitee},
                         !.goal[g].pending = @ \cup {waitee}]
    IN  [M2 EXCEPT !.goal[waitee].waiters = @ \cup {g}]

RECURSIVE addWaitees(_, _, _)
addWaitees(M, g, ws) ==
    IF ws = {} THEN M
    ELSE LET x == CHOOSE y \in ws : TRUE
         IN  addWaitees(addWaitee(M, g, x), g, ws \ {x})

\* PseudoGoal::waiteeDone that keeps the result of the last waitee only.
pseudoWaiteeDone_lastOnly(M, success) == [M EXCEPT !.pseudoOk = success]

\* PseudoGoal::waiteeDone: if (!success) this->success = false;
pseudoWaiteeDone(M, success) == [M EXCEPT !.pseudoOk = @ /\ success]

\* Goal::waiteeDone that wakes the goal on every failure, whatever keepGoing.
waiteeDone_wakeOnFailure(M, g, waitee, success) ==
    IF g = PseudoGoal THEN pseudoWaiteeDone(M, success)
    ELSE LET left == M.goal[g].waitees \ {waitee}
             M1 == [M EXCEPT !.goal[g].waitees = left,
                             !.goal[g].pending = @ \ {waitee},
                             !.goal[g].nrFailed = @ + (IF success THEN 0 ELSE 1)]
         IN  IF left = {} \/ ~success THEN wakeUp(M1, g) ELSE M1

\* Goal::waiteeDone that clears waitees and leaves the goal among the
\* waiters of the waitees that remain.
waiteeDone_noDetach(M, g, waitee, success) ==
    IF g = PseudoGoal THEN pseudoWaiteeDone(M, success)
    ELSE IF waitee \notin M.goal[g].waitees THEN [M EXCEPT !.fault = "abort"]
    ELSE LET left == M.goal[g].waitees \ {waitee}
             M1 == [M EXCEPT !.goal[g].waitees = left,
                             !.goal[g].pending = @ \ {waitee},
                             !.goal[g].nrFailed = @ + (IF success THEN 0 ELSE 1)]
         IN  IF left = {} \/ (~success /\ ~M.keepGoing)
             THEN wakeUp([M1 EXCEPT !.goal[g].waitees = {}], g)
             ELSE M1

\* Goal::waiteeDone; the pseudo goal overrides it.
waiteeDone(M, g, waitee, success) ==
    IF g = PseudoGoal THEN pseudoWaiteeDone(M, success)
    ELSE IF waitee \notin M.goal[g].waitees THEN [M EXCEPT !.fault = "abort"]
    ELSE LET left == M.goal[g].waitees \ {waitee}
             M1 == [M EXCEPT !.goal[g].waitees = left,
                             !.goal[g].pending = @ \ {waitee},
                             !.goal[g].nrFailed = @ + (IF success THEN 0 ELSE 1)]
         IN  IF left = {} \/ (~success /\ ~M.keepGoing)
             THEN LET M2 == [M1 EXCEPT !.goal =
                                [x \in GoalIds |->
                                    IF x \in left
                                    THEN [M1.goal[x] EXCEPT !.waiters = @ \ {g}]
                                    ELSE M1.goal[x]]]
                  IN  wakeUp([M2 EXCEPT !.goal[g].waitees = {}], g)
             ELSE M1

RECURSIVE notifyWaiters(_, _, _, _)
notifyWaiters(M, g, ws, success) ==
    IF ws = {} \/ M.fault # "none" THEN M
    ELSE LET x == CHOOSE y \in ws : TRUE
         IN  notifyWaiters(waiteeDone(M, x, g, success), g, ws \ {x}, success)

\* Worker::removeGoal that forgets every top-level goal.
removeGoal_all(M, g) == [M EXCEPT !.topGoals = {}]

\* Worker::removeGoal
removeGoal(M, g) == [M EXCEPT !.topGoals = @ \ {g}]

\* Goal::amDone without waiters.clear().
amDone_waitersKept(M, g, success) ==
    IF M.goal[g].done THEN [M EXCEPT !.fault = "abort"]
    ELSE LET M1 == [M EXCEPT !.goal[g].done = TRUE,
                             !.goal[g].exit = IF success THEN "success" ELSE "failure",
                             !.finished = @ \cup {[goal |-> g, success |-> success]}]
             M2 == notifyWaiters(M1, g, M1.goal[g].waiters, success)
         IN  IF M2.fault # "none" THEN M2 ELSE removeGoal(M2, g)

\* Goal::amDone
amDone(M, g, success) ==
    IF M.goal[g].done THEN [M EXCEPT !.fault = "abort"]
    ELSE LET M1 == [M EXCEPT !.goal[g].done = TRUE,
                             !.goal[g].exit = IF success THEN "success" ELSE "failure",
                             !.finished = @ \cup {[goal |-> g, success |-> success]}]
             M2 == notifyWaiters(M1, g, M1.goal[g].waiters, success)
         IN  IF M2.fault # "none" THEN M2
             ELSE removeGoal([M2 EXCEPT !.goal[g].waiters = {}], g)

\* Worker::canBuildMore
canBuildMore(M) == M.nrChildren < M.maxBuildJobs

\* Worker::childStarted that counts every child.
childStarted_countAll(M, g, kind, inBuildSlot) ==
    [M EXCEPT !.children = @ \cup {[goal |-> g, kind |-> kind,
                                    inBuildSlot |-> inBuildSlot,
                                    status |-> "running"]},
              !.nrChildren = @ + 1,
              !.forked = @ \cup {[goal |-> g, kind |-> kind]}]

\* Worker::childStarted
childStarted(M, g, kind, inBuildSlot) ==
    [M EXCEPT !.children = @ \cup {[goal |-> g, kind |-> kind,
                                    inBuildSlot |-> inBuildSlot,
                                    status |-> "running"]},
              !.nrChildren = IF inBuildSlot THEN @ + 1 ELSE @,
              !.forked = @ \cup {[goal |-> g, kind |-> kind]}]

childOf(M, g) == CHOOSE c \in M.children : c.goal = g

hasChild(M, g) == \E c \in M.children : c.goal = g

\* Worker::childTerminated
childTerminated(M, g, wakeSleepers) ==
    LET c == childOf(M, g)
        M1 == [M EXCEPT !.children = @ \ {c},
                        !.nrChildren = IF c.inBuildSlot THEN @ - 1 ELSE @]
    IN  IF c.inBuildSlot /\ M.nrChildren = 0 THEN [M EXCEPT !.fault = "abort"]
        ELSE IF wakeSleepers
        THEN [M1 EXCEPT !.awake = @ \cup M1.wantingToBuild,
                        !.wantingToBuild = {}]
        ELSE M1

\* Worker::waitForBuildSlot that parks the goal also when no child runs.
waitForBuildSlot_alwaysPark(M, g, reallyWait) ==
    IF ~reallyWait /\ canBuildMore(M) THEN wakeUp(M, g)
    ELSE [M EXCEPT !.wantingToBuild = @ \cup {g}]

\* Worker::waitForBuildSlot
waitForBuildSlot(M, g, reallyWait) ==
    IF reallyWait /\ M.children = {} THEN [M EXCEPT !.fault = "throw"]
    ELSE IF ~reallyWait /\ canBuildMore(M) THEN wakeUp(M, g)
    ELSE [M EXCEPT !.wantingToBuild = @ \cup {g}]

(***************************************************************************)
(* DerivationGoal.                                                         *)
(***************************************************************************)
\* What the builders write into the outputs: the store paths whose hash
\* part occurs in each output.
Mentions ==
    [o \in OutPaths |->
        CASE o = "a1" -> {"s"}
          [] o = "a2" -> {"a1", "a2"}
          [] o = "b"  -> {"a1"}
          [] OTHER    -> {}]

\* filterReferences(path, allPaths)
filterReferences(path, allPaths) == Mentions[path] \cap allPaths

throw(M) == [M EXCEPT !.fault = "throw"]

assertFailed(M) == [M EXCEPT !.fault = "abort"]

\* DerivationGoal::init
drvInit(M, g) ==
    [addWaitee(M, g, SubGoal(g.p)) EXCEPT !.goal[g].state = "haveStoreExpr"]

\* DerivationGoal::outputsSubstituted that goes on to the inputs without
\* looking at the outputs again.
outputsSubstituted_alwaysBuilds(M, g) ==
    IF M.goal[g].nrFailed > 0 /\ ~M.tryFallback THEN throw(M)
    ELSE [addWaitees([M EXCEPT !.goal[g].nrFailed = 0], g,
              {DrvGoal(i) : i \in Derivations[g.p].inputDrvs} \cup
              {SubGoal(i) : i \in Derivations[g.p].inputSrcs})
          EXCEPT !.goal[g].state = "inputsRealised"]

\* DerivationGoal::outputsSubstituted
outputsSubstituted(M, g) ==
    IF M.goal[g].nrFailed > 0 /\ ~M.tryFallback THEN throw(M)
    ELSE LET M1 == [M EXCEPT !.goal[g].nrFailed = 0]
         IN  IF checkPathValidity(M1.db, g.p, FALSE) = {}
             THEN amDone(M1, g, TRUE)
             ELSE [addWaitees(M1, g,
                       {DrvGoal(i) : i \in Derivations[g.p].inputDrvs} \cup
                       {SubGoal(i) : i \in Derivations[g.p].inputSrcs})
                   EXCEPT !.goal[g].state = "inputsRealised"]

\* DerivationGoal::haveStoreExpr
haveStoreExpr(M, g) ==
    IF M.goal[g].nrFailed # 0 THEN amDone(M, g, FALSE)
    ELSE IF ~isValidPathTxn(M.db, g.p) THEN assertFailed(M)
    ELSE LET invalidOutputs == checkPathValidity(M.db, g.p, FALSE)
         IN  IF invalidOutputs = {} THEN amDone(M, g, TRUE)
             ELSE LET M1 == addWaitees(M, g,
                                {SubGoal(o) : o \in {i \in invalidOutputs :
                                     Len(querySubstitutes(M.db, i)) > 0}})
                  IN  IF M1.goal[g].waitees = {}
                      THEN outputsSubstituted(M1, g)
                      ELSE [M1 EXCEPT !.goal[g].state = "outputsSubstituted"]

\* DerivationGoal::inputsRealised
inputsRealised(M, g) ==
    IF M.goal[g].nrFailed # 0 THEN amDone(M, g, FALSE)
    ELSE wakeUp([M EXCEPT !.goal[g].state = "tryToBuild"], g)

\* DerivationGoal::prepareBuild; the result is left in M.ok.
prepareBuild(M, g) ==
    LET M1 == [M EXCEPT !.goal[g].locks = outputPaths(g.p)]
        validPaths == checkPathValidity(M1.db, g.p, TRUE)
    IN  IF validPaths = outputPaths(g.p) THEN [M1 EXCEPT !.ok = FALSE]
        ELSE IF validPaths # {} THEN throw(M1)
        ELSE IF \E i \in Derivations[g.p].inputDrvs : ~isValidPathTxn(M1.db, i)
        THEN assertFailed(M1)
        ELSE [M1 EXCEPT !.goal[g].allPaths = prepareAllPaths(M1.db, g.p),
                        !.goal[g].inputPaths = prepareInputPaths(M1.db, g.p),
                        !.ok = TRUE]

\* DerivationGoal::terminateBuildHook
terminateBuildHook(M, g) == childTerminated(M, g, FALSE)

\* DerivationGoal::tryBuildHook; the HookReply is left in M.reply.
tryBuildHook(M, g, reply) ==
    IF ~M.hook THEN [M EXCEPT !.reply = "decline"]
    ELSE LET M1 == childStarted(M, g, "hook", FALSE)
         IN  CASE reply \in {"decline", "postpone"} ->
                    [terminateBuildHook(M1, g) EXCEPT !.reply = reply]
               [] reply = "accept" ->
                    LET M2 == prepareBuild(M1, g)
                    IN  IF M2.fault # "none" THEN M2
                        ELSE IF ~M2.ok
                        THEN [terminateBuildHook(M2, g) EXCEPT !.reply = "done"]
                        ELSE [M2 EXCEPT !.reply = "accept"]
               [] OTHER -> throw(M1)

\* DerivationGoal::startBuilder that leaves what it finds at the output
\* paths.
startBuilder_keepsStray(M, g) ==
    IF \E o \in outputPaths(g.p) : isValidPathTxn(M.db, o) THEN throw(M)
    ELSE childStarted([M EXCEPT !.wrongHash = @ \ outputPaths(g.p)],
                      g, "builder", TRUE)

\* DerivationGoal::startBuilder
startBuilder(M, g) ==
    IF \E o \in outputPaths(g.p) : isValidPathTxn(M.db, o) THEN throw(M)
    ELSE childStarted([M EXCEPT !.disk = @ \ outputPaths(g.p),
                                !.wrongHash = @ \ outputPaths(g.p)],
                      g, "builder", TRUE)

\* DerivationGoal::tryToBuild that goes on to the local build after the
\* hook has accepted.
tryToBuild_acceptFallsThrough(M, g, reply) ==
    LET H == tryBuildHook(M, g, reply)
    IN  IF H.fault # "none" THEN H
        ELSE CASE H.reply = "postpone" -> waitForBuildSlot(H, g, TRUE)
               [] H.reply = "done" -> amDone(H, g, TRUE)
               [] OTHER ->
                    IF ~canBuildMore(H) THEN waitForBuildSlot(H, g, FALSE)
                    ELSE LET P == prepareBuild(H, g)
                         IN  IF P.fault # "none" THEN P
                             ELSE IF ~P.ok THEN amDone(P, g, TRUE)
                             ELSE LET B == startBuilder(P, g)
                                  IN  IF B.fault # "none" THEN B
                                      ELSE [B EXCEPT !.goal[g].state = "buildDone"]

\* DerivationGoal::tryToBuild
tryToBuild(M, g, reply) ==
    LET H == tryBuildHook(M, g, reply)
    IN  IF H.fault # "none" THEN H
        ELSE CASE H.reply = "accept" -> [H EXCEPT !.goal[g].state = "buildDone"]
               [] H.reply = "postpone" -> waitForBuildSlot(H, g, TRUE)
               [] H.reply = "done" -> amDone(H, g, TRUE)
               [] OTHER ->
                    IF ~canBuildMore(H) THEN waitForBuildSlot(H, g, FALSE)
                    ELSE LET P == prepareBuild(H, g)
                         IN  IF P.fault # "none" THEN P
                             ELSE IF ~P.ok THEN amDone(P, g, TRUE)
                             ELSE LET B == startBuilder(P, g)
                                  IN  IF B.fault # "none" THEN B
                                      ELSE [B EXCEPT !.goal[g].state = "buildDone"]

\* The registration loop of computeClosure inside its transaction.
RECURSIVE registerOutputs(_, _, _, _)
registerOutputs(t, outs, i, allPaths) ==
    IF i > Len(outs) THEN t
    ELSE registerOutputs(
             setReferences(registerValidPathHash(t, outs[i]).db, outs[i],
                           filterReferences(outs[i], allPaths)).db,
             outs, i + 1, allPaths)

\* The check of a fixed output in computeClosure: the hash of the file is
\* the declared one, and the file is a non-executable regular file.
\* wrongHash holds the paths on disk whose content fails this check.
fixedOutputsOk(M, g) ==
    Derivations[g.p].fixed => outputPaths(g.p) \cap M.wrongHash = {}

\* computeClosure without the registration of the outputs.
computeClosure_unregistered(M, g) ==
    IF ~(outputPaths(g.p) \subseteq M.disk) THEN [M EXCEPT !.ok = FALSE]
    ELSE IF ~fixedOutputsOk(M, g) THEN throw(M)
    ELSE [M EXCEPT !.ok = TRUE]

\* computeClosure without the check of the fixed outputs.
computeClosure_unchecked(M, g) ==
    IF ~(outputPaths(g.p) \subseteq M.disk) THEN [M EXCEPT !.ok = FALSE]
    ELSE [M EXCEPT !.db = registerOutputs(M.db, outputList(g.p), 1,
                                          M.goal[g].allPaths),
                   !.ok = TRUE]

\* DerivationGoal::computeClosure; M.ok tells whether it returned (TRUE) or
\* raised BuildError (FALSE).
computeClosure(M, g) ==
    IF ~(outputPaths(g.p) \subseteq M.disk) THEN [M EXCEPT !.ok = FALSE]
    ELSE IF ~fixedOutputsOk(M, g) THEN throw(M)
    ELSE [M EXCEPT !.db = registerOutputs(M.db, outputList(g.p), 1,
                                          M.goal[g].allPaths),
                   !.ok = TRUE]

\* DerivationGoal::buildDone
buildDone(M, g) ==
    LET status == childOf(M, g).status
        M1 == childTerminated(M, g, TRUE)
    IN  IF M1.fault # "none" THEN M1
        ELSE IF status = "fail" THEN amDone(M1, g, FALSE)
        ELSE LET M2 == computeClosure(M1, g)
             IN  IF M2.fault # "none" THEN M2
                 ELSE amDone(M2, g, M2.ok)

\* SubstitutionGoal::tryNext that reports success when no substitute is
\* left.
tryNext_succeeds(M, g) ==
    IF Len(M.goal[g].subs) = 0 THEN amDone(M, g, TRUE)
    ELSE waitForBuildSlot([M EXCEPT !.goal[g].sub = Head(M.goal[g].subs),
                                    !.goal[g].subs = Tail(@),
                                    !.goal[g].state = "tryToRun"], g, FALSE)

(***************************************************************************)
(* SubstitutionGoal.                                                       *)
(***************************************************************************)
\* SubstitutionGoal::tryNext
tryNext(M, g) ==
    IF Len(M.goal[g].subs) = 0 THEN amDone(M, g, FALSE)
    ELSE waitForBuildSlot([M EXCEPT !.goal[g].sub = Head(M.goal[g].subs),
                                    !.goal[g].subs = Tail(@),
                                    !.goal[g].state = "tryToRun"], g, FALSE)

\* SubstitutionGoal::referencesValid
referencesValid(M, g) ==
    IF M.goal[g].nrFailed > 0 THEN throw(M)
    ELSE IF \E i \in M.goal[g].references : ~isValidPathTxn(M.db, i)
    THEN assertFailed(M)
    ELSE tryNext(M, g)

\* SubstitutionGoal::init that does not wait for the references.
subInit_referencesSkipped(M, g) ==
    IF isValidPathTxn(M.db, g.p) THEN amDone(M, g, TRUE)
    ELSE IF ~isRealisablePath(M.db, g.p) THEN throw(M)
    ELSE tryNext([M EXCEPT !.goal[g].subs = querySubstitutes(M.db, g.p),
                           !.goal[g].references = M.db.references[g.p],
                           !.subLog[g.p] = [read |-> querySubstitutes(M.db, g.p),
                                            tried |-> <<>>]], g)

\* SubstitutionGoal::init; queryReferences raises an error for a path that
\* is neither valid nor substitutable.
subInit(M, g) ==
    IF isValidPathTxn(M.db, g.p) THEN amDone(M, g, TRUE)
    ELSE IF ~isRealisablePath(M.db, g.p) THEN throw(M)
    ELSE LET M1 == [M EXCEPT !.goal[g].subs = querySubstitutes(M.db, g.p),
                             !.goal[g].references = M.db.references[g.p],
                             !.subLog[g.p] = [read |-> querySubstitutes(M.db, g.p),
                                              tried |-> <<>>]]
             M2 == addWaitees(M1, g, {SubGoal(i) : i \in M1.goal[g].references})
         IN  IF M2.goal[g].waitees = {}
             THEN referencesValid(M2, g)
             ELSE [M2 EXCEPT !.goal[g].state = "referencesValid"]

\* SubstitutionGoal::tryToRun
tryToRun(M, g) ==
    IF ~canBuildMore(M) THEN waitForBuildSlot(M, g, FALSE)
    ELSE LET M1 == [M EXCEPT !.goal[g].locks = {g.p}]
         IN  IF isValidPathTxn(M1.db, g.p) THEN amDone(M1, g, TRUE)
             ELSE [childStarted([M1 EXCEPT !.disk = @ \ {g.p},
                                           !.wrongHash = @ \ {g.p},
                                           !.subLog[g.p].tried =
                                               Append(@, M1.goal[g].sub)],
                                g, "substituter", TRUE)
                   EXCEPT !.goal[g].state = "finished"]

\* SubstitutionGoal::finished that gives up when the substitute failed.
finished_noRetry(M, g) ==
    LET status == childOf(M, g).status
        M1 == childTerminated(M, g, TRUE)
    IN  IF M1.fault # "none" THEN M1
        ELSE IF status = "fail" \/ g.p \notin M1.disk
        THEN amDone(M1, g, FALSE)
        ELSE amDone([M1 EXCEPT !.db = registerValidPathHash(M1.db, g.p).db],
                    g, TRUE)

\* SubstitutionGoal::finished that registers the path with an empty set of
\* references.
finished_referencesCleared(M, g) ==
    LET status == childOf(M, g).status
        M1 == childTerminated(M, g, TRUE)
    IN  IF M1.fault # "none" THEN M1
        ELSE IF status = "fail" \/ g.p \notin M1.disk
        THEN wakeUp([M1 EXCEPT !.goal[g].state = "tryNext"], g)
        ELSE amDone([M1 EXCEPT !.db = registerValidPath(M1.db, g.p, {}, "").db],
                    g, TRUE)

\* SubstitutionGoal::finished
finished(M, g) ==
    LET status == childOf(M, g).status
        M1 == childTerminated(M, g, TRUE)
    IN  IF M1.fault # "none" THEN M1
        ELSE IF status = "fail" \/ g.p \notin M1.disk
        THEN wakeUp([M1 EXCEPT !.goal[g].state = "tryNext"], g)
        ELSE amDone([M1 EXCEPT !.db = registerValidPathHash(M1.db, g.p).db],
                    g, TRUE)

(***************************************************************************)
(* Lifetime of goals: a goal lives as long as it can be reached through    *)
(* strong pointers, that is, from the pseudo goal of Worker::run through   *)
(* the waitees.  A goal that is no longer reachable is destroyed: its      *)
(* child is killed, its locks are released, and the weak pointers to it    *)
(* expire.                                                                 *)
(***************************************************************************)
RECURSIVE reachable(_, _, _)
reachable(goal, todo, seen) ==
    IF todo = {} THEN seen
    ELSE LET g == CHOOSE x \in todo : TRUE
             new == goal[g].waitees \ (seen \cup {g})
         IN  reachable(goal, (todo \ {g}) \cup new, seen \cup {g})

\* ~DerivationGoal, ~SubstitutionGoal for the goals of the set dead.
RECURSIVE destructors(_, _)
destructors(M, dead) ==
    IF dead = {} THEN M
    ELSE LET g == CHOOSE x \in dead : TRUE
             M1 == IF hasChild(M, g) THEN childTerminated(M, g, TRUE) ELSE M
         IN  destructors(M1, dead \ {g})

destroyGoals(M) ==
    LET live == reachable(M.goal, {PseudoGoal}, {})
        dead == {g \in GoalIds : M.goal[g].alive /\ g \notin live}
        M1 == destructors(M, dead)
    IN  [M1 EXCEPT !.goal = [g \in GoalIds |->
                                IF g \in dead THEN NoGoal
                                ELSE [M1.goal[g] EXCEPT !.waiters = @ \ dead]],
                   !.awake = @ \ dead,
                   !.awake2 = @ \ dead,
                   !.wantingToBuild = @ \ dead]

(***************************************************************************)
(* Worker::run, called from buildDerivations or ensurePath.                *)
(***************************************************************************)
\* Bounds of the runs.
MaxBuildJobs == 2
MaxTopGoals == 2

\* The references recorded in the database for the paths that are valid
\* or substitutable when the run starts.
DeclaredRefs ==
    [p \in Paths |->
        CASE p = "dA" -> {"s"}
          [] p = "dB" -> {"dA"}
          [] p = "dC" -> {"s"}
          [] p = "a1" -> {"s"}
          [] p = "a2" -> {"a1"}
          [] p = "b"  -> {"a1"}
          [] p = "e"  -> {"a2"}
          [] OTHER    -> {}]

\* The sets of valid paths a run starts from.
InitialValid ==
    {DrvPaths \cup {"s"},
     DrvPaths \cup {"s", "a1"},
     DrvPaths \cup {"s", "a1", "a2"},
     {"dE"}}

\* The sets of paths that have substitutes when a run starts.
InitialSubst ==
    {{}, {"a1"}, {"a1", "a2"}, {"b"}, {"a1", "a2", "b"}, {"a1", "a2", "e"},
     {"s", "dA"}}

\* The substitutes registered for a substitutable path.  The record of an
\* output path may name the derivation it comes from.
InitialSubs(p) ==
    CASE p = "b"  -> << [deriver |-> "dB", program |-> "p1"],
                        [deriver |-> "", program |-> "p2"] >>
      [] p = "a1" -> << [deriver |-> "dA", program |-> "p1"] >>
      [] OTHER    -> << [deriver |-> "", program |-> "p1"] >>

InitialDB(valid, subst) ==
    [validPaths  |-> valid,
     references  |-> [p \in Paths |->
                        IF p \in valid \cup subst THEN DeclaredRefs[p] ELSE {}],
     referers    |-> [p \in Paths |->
                        {q \in valid \cup subst : p \in DeclaredRefs[q]}],
     substitutes |-> [p \in Paths |->
                        IF p \in subst THEN InitialSubs(p) ELSE <<>>],
     derivers    |-> [p \in Paths |-> ""]]

\* The paths given to ensurePath.
EnsurePaths == {"b"}

\* The goal sets handed to Worker::run.
TopGoalSets(valid) ==
    {{DrvGoal(d) : d \in ds} :
        ds \in {x \in SUBSET DrvPaths : x # {} /\ Cardinality(x) <= MaxTopGoals}}
    \cup {{SubGoal(q)} : q \in EnsurePaths \ valid}

HookReplies == {"accept", "postpone", "decline", "bogus"}

\* The substitutes a substitution goal of a path read in init, and the
\* ones for which it has run the substitute program, in order.
NoSubLog == [read |-> <<>>, tried |-> <<>>]

\* Worker::Worker, makeDerivationGoal / makeSubstitutionGoal in
\* buildDerivations / ensurePath, and the head of Worker::run.
NewWorker(top, keepGoing, tryFallback, maxBuildJobs, hook) ==
    [run |-> "loop", ret |-> "none", result |-> "none",
     goal |-> [g \in GoalIds |->
                 IF g = PseudoGoal THEN [NewGoal EXCEPT !.waitees = top]
                 ELSE IF g \in top THEN [NewGoal EXCEPT !.waiters = {PseudoGoal}]
                 ELSE NoGoal],
     topGoals |-> top, awake |-> top, awake2 |-> {}, wantingToBuild |-> {},
     children |-> {}, nrChildren |-> 0, pseudoOk |-> TRUE,
     keepGoing |-> keepGoing, tryFallback |-> tryFallback,
     maxBuildJobs |-> maxBuildJobs, hook |-> hook,
     wrongHash |-> {},
     subLog |-> [q \in Paths |-> NoSubLog],
     finished |-> {}, forked |-> {}, fault |-> "none", ok |-> TRUE,
     reply |-> "", last |-> [act |-> "run"]]

\* The settings of tryFallback: it is read only after a substitute of an
\* output has failed, so both settings are tried where outputs have
\* substitutes (in the runs without a build hook).
FallbackSettings(subst, hook) ==
    IF hook \/ subst \cap OutPaths = {} THEN {FALSE} ELSE BOOLEAN

WorkerInit ==
    /\ \E valid \in InitialValid :
         \E subst \in {x \in InitialSubst : x \cap valid = {}} :
            /\ db = InitialDB(valid, subst)
            /\ disk = valid
            /\ \E top \in TopGoalSets(valid), keepGoing \in BOOLEAN,
                  maxBuildJobs \in 0..MaxBuildJobs, hook \in BOOLEAN :
                 \E tryFallback \in FallbackSettings(subst, hook) :
                    wk = NewWorker(top, keepGoing, tryFallback, maxBuildJobs, hook)
    /\ txn = NoTxn
    /\ bld = Idle
    /\ sbt = Idle
    /\ nOps = 0
    /\ procs = NoProcs
    /\ glob = Opened
    /\ farm = NoFarm

\* The state a handler starts from: the worker, the database, the file
\* system.
Machine(last) ==
    [wk EXCEPT !.finished = {}, !.forked = {}, !.last = last]
    @@ [db |-> db, disk |-> disk]

\* The state a handler leaves: an exception unwinds Worker::run, a failed
\* assertion aborts the process.
Install(M) ==
    \E M1 \in {IF M.fault = "none" THEN destroyGoals(M) ELSE M} :
        /\ wk' = [f \in DOMAIN wk |->
                    IF f = "run"
                    THEN CASE M1.fault = "throw" -> "threw"
                           [] M1.fault = "abort" -> "aborted"
                           [] OTHER -> M1.run
                    ELSE M1[f]]
        /\ db' = M1.db
        /\ disk' = M1.disk
        /\ UNCHANGED <<txn, bld, sbt, nOps, procs, glob, farm>>

\* goal->work() for a goal of the batch awake2.
Called(g, kind, state) ==
    /\ wk.run = "loop"
    /\ g \in wk.awake2
    /\ g.k = kind
    /\ wk.goal[g].state = state

Resumed(g) ==
    LET M == Machine([act |-> "work", goal |-> g, state |-> wk.goal[g].state,
                      pending |-> wk.goal[g].pending,
                      nrFailed |-> wk.goal[g].nrFailed,
                      status |-> IF hasChild(wk, g) THEN childOf(wk, g).status
                                 ELSE "none",
                      child |-> IF hasChild(wk, g) THEN childOf(wk, g).kind
                                ELSE "none",
                      references |-> wk.goal[g].references,
                      stray |-> GoalLockPaths(g) \cap (disk \ db.validPaths)])
    IN  [M EXCEPT !.awake2 = @ \ {g}, !.goal[g].pending = {}]

DerivationGoal_init(g) ==
    Called(g, "drv", "init") /\ Install(drvInit(Resumed(g), g))

DerivationGoal_haveStoreExpr(g) ==
    Called(g, "drv", "haveStoreExpr") /\ Install(haveStoreExpr(Resumed(g), g))

DerivationGoal_outputsSubstituted(g) ==
    Called(g, "drv", "outputsSubstituted")
    /\ Install(outputsSubstituted(Resumed(g), g))

DerivationGoal_inputsRealised(g) ==
    Called(g, "drv", "inputsRealised") /\ Install(inputsRealised(Resumed(g), g))

\* reply is what the build hook answers, if there is a build hook.
DerivationGoal_tryToBuild(g, reply) ==
    /\ Called(g, "drv", "tryToBuild")
    /\ Install(tryToBuild([Resumed(g) EXCEPT !.last =
                              @ @@ [hookReply |-> IF wk.hook THEN reply ELSE "none"]],
                          g, reply))

\* pid.wait(true) returns when the child has exited.
DerivationGoal_buildDone(g) ==
    /\ Called(g, "drv", "buildDone")
    /\ childOf(wk, g).status # "running"
    /\ Install(buildDone(Resumed(g), g))

SubstitutionGoal_init(g) ==
    Called(g, "sub", "init") /\ Install(subInit(Resumed(g), g))

SubstitutionGoal_referencesValid(g) ==
    Called(g, "sub", "referencesValid")
    /\ Install(referencesValid(Resumed(g), g))

SubstitutionGoal_tryNext(g) ==
    Called(g, "sub", "tryNext") /\ Install(tryNext(Resumed(g), g))

SubstitutionGoal_tryToRun(g) ==
    Called(g, "sub", "tryToRun") /\ Install(tryToRun(Resumed(g), g))

SubstitutionGoal_finished(g) ==
    /\ Called(g, "sub", "finished")
    /\ childOf(wk, g).status # "running"
    /\ Install(finished(Resumed(g), g))

\* WeakGoals awake2(awake); awake.clear();
StartBatch ==
    /\ wk.run = "loop"
    /\ wk.awake2 = {} /\ wk.awake # {}
    /\ wk' = [wk EXCEPT !.awake2 = wk.awake, !.awake = {},
                        !.finished = {}, !.forked = {},
                        !.last = [act |-> "batch"]]
    /\ UNCHANGED <<db, disk, txn, bld, sbt, nOps, procs, glob, farm>>

\* Worker::run is past the inner loop: no goal is awake.
Quiescent == wk.run = "loop" /\ wk.awake = {} /\ wk.awake2 = {}

\* PseudoGoal::isOkay, the value Worker::run returns.
isOkay(w) == IF w.pseudoOk THEN "true" ELSE "false"

\* buildDerivations, ensurePath: if (!worker.run(goals)) throw Error(...)
callerResult(ret) == IF ret = "false" THEN "error" ELSE "ok"

\* if (topGoals.empty()) break; the assertions behind the loop; return
\* pseudo->isOkay(); and the throw of buildDerivations / ensurePath.
LeaveLoop ==
    /\ Quiescent
    /\ wk.topGoals = {}
    /\ wk' = [wk EXCEPT
                !.run = IF wk.keepGoing /\ (wk.wantingToBuild # {} \/ wk.children # {})
                        THEN "aborted" ELSE "returned",
                !.ret = IF wk.keepGoing /\ (wk.wantingToBuild # {} \/ wk.children # {})
                        THEN "none" ELSE isOkay(wk),
                !.result = IF wk.keepGoing /\ (wk.wantingToBuild # {} \/ wk.children # {})
                           THEN "none" ELSE callerResult(isOkay(wk)),
                !.finished = {}, !.forked = {}, !.last = [act |-> "leave"]]
    /\ UNCHANGED <<db, disk, txn, bld, sbt, nOps, procs, glob, farm>>

\* assert(!children.empty()) fails.
NothingToWaitFor ==
    /\ Quiescent
    /\ wk.topGoals # {}
    /\ wk.children = {}
    /\ wk' = [wk EXCEPT !.run = "aborted", !.finished = {}, !.forked = {},
                        !.last = [act |-> "assert"]]
    /\ UNCHANGED <<db, disk, txn, bld, sbt, nOps, procs, glob, farm>>

\* What a child leaves in the store when it exits: nothing or everything
\* when it fails ("fail", "stray"), else all its paths or all but one.
Produced(c, outcome) ==
    CASE outcome = "fail" -> {}
      [] outcome = "stray" -> GoalLockPaths(c.goal)
      [] c.kind = "substituter" ->
            IF outcome = "ok" THEN {c.goal.p} ELSE {}
      [] OTHER ->
            IF outcome = "missing"
            THEN outputPaths(c.goal.p) \ {outputList(c.goal.p)[Len(outputList(c.goal.p))]}
            ELSE outputPaths(c.goal.p)

ChildOutcomes(c) ==
    {"ok", "fail", "stray", "missing"} \cup
    (IF c.kind # "substituter" /\ Derivations[c.goal.p].fixed
     THEN {"badhash"} ELSE {})

\* A child process exits while the worker sits in select().
ChildExit(c, outcome) ==
    /\ Quiescent
    /\ wk.topGoals # {}
    /\ c \in wk.children /\ c.status = "running"
    /\ outcome \in ChildOutcomes(c)
    /\ wk' = [wk EXCEPT
                !.children = (@ \ {c}) \cup
                    {[c EXCEPT !.status = IF outcome \in {"fail", "stray"}
                                           THEN "fail" ELSE "ok"]},
                !.wrongHash = IF outcome = "badhash"
                              THEN @ \cup Produced(c, outcome)
                              ELSE @ \ Produced(c, outcome),
                !.finished = {}, !.forked = {}, !.last = [act |-> "exit"]]
    /\ disk' = disk \cup Produced(c, outcome)
    /\ UNCHANGED <<db, txn, bld, sbt, nOps, procs, glob, farm>>

\* Worker::waitForInput: select() returns, every goal whose child closed
\* its log pipe is woken up.
waitForInput ==
    /\ Quiescent
    /\ wk.topGoals # {}
    /\ \E c \in wk.children : c.status # "running"
    /\ wk' = [wk EXCEPT !.awake = {c.goal : c \in {x \in wk.children :
                                                     x.status # "running"}},
                        !.finished = {}, !.forked = {},
                        !.last = [act |-> "select"]]
    /\ UNCHANGED <<db, disk, txn, bld, sbt, nOps, procs, glob, farm>>

WorkerNext ==
    \/ StartBatch
    \/ \E d \in DrvPaths : DerivationGoal_init(DrvGoal(d))
    \/ \E d \in DrvPaths : DerivationGoal_haveStoreExpr(DrvGoal(d))
    \/ \E d \in DrvPaths : DerivationGoal_outputsSubstituted(DrvGoal(d))
    \/ \E d \in DrvPaths : DerivationGoal_inputsRealised(DrvGoal(d))
    \/ \E d \in DrvPaths, reply \in HookReplies :
          DerivationGoal_tryToBuild(DrvGoal(d), reply)
    \/ \E d \in DrvPaths : DerivationGoal_buildDone(DrvGoal(d))
    \/ \E q \in Paths : SubstitutionGoal_init(SubGoal(q))
    \/ \E q \in Paths : SubstitutionGoal_referencesValid(SubGoal(q))
    \/ \E q \in Paths : SubstitutionGoal_tryNext(SubGoal(q))
    \/ \E q \in Paths : SubstitutionGoal_tryToRun(SubGoal(q))
    \/ \E q \in Paths : SubstitutionGoal_finished(SubGoal(q))
    \/ \E c \in wk.children, outcome \in {"ok", "fail", "stray", "missing", "badhash"} :
          ChildExit(c, outcome)
    \/ waitForInput
    \/ LeaveLoop
    \/ NothingToWaitFor

SpecWorker == WorkerInit /\ [][WorkerNext]_vars

(***************************************************************************)
(* Several Nix processes on one store: the goals that take path locks.     *)
(* Each process runs one goal at a time: a derivation goal from            *)
(* prepareBuild on, or a substitution goal from tryToRun on.  A lock       *)
(* request waits until no other process holds one of the paths.            *)
(***************************************************************************)
Procs == {"P1", "P2"}

\* addToStore of a source whose store path is dstPath.
AddGoal(dstPath) == [k |-> "add", p |-> dstPath]

\* The source files given to addToStore: two files of the same name and
\* contents in different directories, and a file of the same contents under
\* another name.
Sources ==
    {[path |-> <<"tmp", "a", "s">>, contents |-> "c1"],
     [path |-> <<"tmp", "b", "s">>, contents |-> "c1"],
     [path |-> <<"tmp", "a", "t">>, contents |-> "c1"]}

NoSource == [path |-> <<>>, contents |-> ""]

\* hashPath(htSHA256, srcPath): the hash of the contents.
hashPath(src) == <<"sha256", src.contents>>

baseNameOf(path) == path[Len(path)]

\* makeStorePath(type, hash, suffix): the digest of type, hash, store
\* directory and suffix, followed by the suffix.  The store path "s" is the
\* one of a source named s with contents c1, "t" the one of a source named
\* t with the same contents.
makeStorePath(type, hash, suffix) ==
    CASE <<type, hash, suffix>> = <<"source", <<"sha256", "c1">>, "s">> -> "s"
      [] <<type, hash, suffix>> = <<"source", <<"sha256", "c1">>, "t">> -> "t"

\* The goals the processes run, and the calls of addToStore they make.
LockGoals ==
    {DrvGoal("dA"), SubGoal("a1"), SubGoal("a2"), AddGoal("s"), AddGoal("t")}

\* The stores the processes start from: dA can be built and its outputs
\* substituted, or the source s has not been added yet.
LockStores == {InitialDB({"dA", "s"}, {"a1", "a2"}), InitialDB({"dE"}, {})}

NoProc == [pc |-> "idle", goal |-> PseudoGoal, locks |-> {}, child |-> FALSE,
           status |-> "none", forkLocked |-> FALSE, forkInvalid |-> FALSE,
           src |-> NoSource]

LocksInit ==
    /\ db \in LockStores
    /\ disk = db.validPaths
    /\ procs = [p \in Procs |-> NoProc]
    /\ txn = NoTxn
    /\ bld = Idle
    /\ sbt = Idle
    /\ nOps = 0
    /\ wk = NoWorker
    /\ glob = Opened
    /\ farm = NoFarm

\* The paths locked by the processes other than p.
lockedByOthers(p) == UNION {procs[o].locks : o \in Procs \ {p}}

\* The goal has come to the point where it takes its locks: the inputs of
\* the derivation are valid, the path has a substitute and its references
\* are valid.
readyToLock(g) ==
    CASE g.k = "drv" ->
            /\ isValidPathTxn(db, g.p)
            /\ \A i \in Derivations[g.p].inputSrcs \cup Derivations[g.p].inputOuts :
                   isValidPathTxn(db, i)
      [] g.k = "sub" ->
            /\ Len(querySubstitutes(db, g.p)) > 0
            /\ \A i \in db.references[g.p] : isValidPathTxn(db, i)
      [] OTHER -> FALSE

\* addToStore up to the lock: the store path is computed from the source,
\* and the call returns it at once if the path is valid.
addToStoreCheck(p, src) ==
    /\ procs[p].pc = "idle"
    /\ LET dstPath == makeStorePath("source", hashPath(src), baseNameOf(src.path))
       IN  procs' = [procs EXCEPT ![p] =
                       [NoProc EXCEPT
                           !.pc = IF ~glob.readOnlyMode /\ ~isValidPathTxn(db, dstPath)
                                  THEN "checked" ELSE "done",
                           !.goal = AddGoal(dstPath), !.src = src]]
    /\ UNCHANGED <<db, disk, txn, bld, sbt, nOps, wk, glob, farm>>

\* PathLocks::lockPaths in prepareBuild, in SubstitutionGoal::tryToRun and
\* in addToStore.
lockPaths(p, g) ==
    /\ \/ procs[p].pc = "idle" /\ readyToLock(g)
       \/ procs[p].pc = "checked" /\ g = procs[p].goal
    /\ GoalLockPaths(g) \cap lockedByOthers(p) = {}
    /\ procs' = [procs EXCEPT ![p].pc = "locked", ![p].goal = g,
                              ![p].locks = GoalLockPaths(g)]
    /\ UNCHANGED <<db, disk, txn, bld, sbt, nOps, wk, glob, farm>>

\* The check under the lock that deletes the paths and starts the child
\* also when the paths are valid.
forkChild_noRecheck(p) ==
    /\ procs[p].pc = "locked"
    /\ LET paths == GoalLockPaths(procs[p].goal)
       IN  /\ disk' = disk \ paths
           /\ procs' = [procs EXCEPT
                 ![p].pc = "running", ![p].child = TRUE,
                 ![p].forkLocked = paths \subseteq procs[p].locks,
                 ![p].forkInvalid = paths \cap db.validPaths = {}]
    /\ UNCHANGED <<db, txn, bld, sbt, nOps, wk, glob, farm>>

\* The check under the lock in prepareBuild / tryToRun / addToStore, then
\* startBuilder / the fork of the substitute / copyPath: stale outputs are
\* deleted, the child runs (or the process itself copies).
forkChild(p) ==
    /\ procs[p].pc = "locked"
    /\ LET paths == GoalLockPaths(procs[p].goal)
           validPaths == paths \cap db.validPaths
       IN  IF validPaths = paths
           THEN procs' = [procs EXCEPT ![p].pc = "done"] /\ UNCHANGED disk
           ELSE IF validPaths # {}
           THEN procs' = [procs EXCEPT ![p].pc = "failed"] /\ UNCHANGED disk
           ELSE /\ disk' = disk \ paths
                /\ procs' = [procs EXCEPT
                      ![p].pc = "running", ![p].child = TRUE,
                      ![p].forkLocked = paths \subseteq procs[p].locks,
                      ![p].forkInvalid = validPaths = {}]
    /\ UNCHANGED <<db, txn, bld, sbt, nOps, wk, glob, farm>>

\* The builder or substitute exits, the copy ends.
childExit(p, ok) ==
    /\ procs[p].pc = "running" /\ procs[p].child
    /\ disk' = IF ok THEN disk \cup GoalLockPaths(procs[p].goal) ELSE disk
    /\ procs' = [procs EXCEPT ![p].pc = "exited", ![p].child = FALSE,
                              ![p].status = IF ok THEN "ok" ELSE "fail"]
    /\ UNCHANGED <<db, txn, bld, sbt, nOps, wk, glob, farm>>

\* buildDone with computeClosure / SubstitutionGoal::finished: the paths
\* are registered in one transaction.
registerPaths(p) ==
    /\ procs[p].pc = "exited"
    /\ IF procs[p].status = "ok" /\ GoalLockPaths(procs[p].goal) \subseteq disk
       THEN /\ db' = [db EXCEPT !.validPaths = @ \cup GoalLockPaths(procs[p].goal)]
            /\ procs' = [procs EXCEPT ![p].pc = "done"]
       ELSE /\ UNCHANGED db
            /\ procs' = [procs EXCEPT ![p].pc = "failed"]
    /\ UNCHANGED <<disk, txn, bld, sbt, nOps, wk, glob, farm>>

\* The goal is destroyed when it has no child: its locks are released.
goalDestroyed(p) ==
    /\ procs[p].pc \in {"checked", "locked", "done", "failed", "exited", "killed"}
    /\ procs' = [procs EXCEPT ![p] = NoProc]
    /\ UNCHANGED <<db, disk, txn, bld, sbt, nOps, wk, glob, farm>>

\* ~DerivationGoal while the builder runs.  The members are destroyed in
\* the reverse order of their declaration: pid (the child is killed)
\* before outputLocks.
derivationGoalDestroyed(p) ==
    /\ procs[p].pc = "running" /\ procs[p].goal.k = "drv"
    /\ procs' = [procs EXCEPT ![p].pc = "killed", ![p].child = FALSE]
    /\ UNCHANGED <<db, disk, txn, bld, sbt, nOps, wk, glob, farm>>

\* addToStore is left by an exception while it copies: the copy has ended
\* when the lock is released.
addToStoreAborted(p) ==
    /\ procs[p].pc = "running" /\ procs[p].goal.k = "add"
    /\ procs' = [procs EXCEPT ![p] = NoProc]
    /\ UNCHANGED <<db, disk, txn, bld, sbt, nOps, wk, glob, farm>>

\* ~SubstitutionGoal while the substitute runs.  outputLock is declared
\* after pid, so the lock is released first ...
substitutionGoalUnlocked(p) ==
    /\ procs[p].pc = "running" /\ procs[p].goal.k = "sub"
    /\ procs' = [procs EXCEPT ![p].pc = "unlocked", ![p].locks = {}]
    /\ UNCHANGED <<db, disk, txn, bld, sbt, nOps, wk, glob, farm>>

\* ... and the child is killed after that.
substitutionGoalKilled(p) ==
    /\ procs[p].pc = "unlocked"
    /\ procs' = [procs EXCEPT ![p] = NoProc]
    /\ UNCHANGED <<db, disk, txn, bld, sbt, nOps, wk, glob, farm>>

LocksNext ==
    \/ \E p \in Procs, src \in Sources : addToStoreCheck(p, src)
    \/ \E p \in Procs, g \in LockGoals : lockPaths(p, g)
    \/ \E p \in Procs : forkChild(p)
    \/ \E p \in Procs, ok \in BOOLEAN : childExit(p, ok)
    \/ \E p \in Procs : registerPaths(p)
    \/ \E p \in Procs : goalDestroyed(p)
    \/ \E p \in Procs : derivationGoalDestroyed(p)
    \/ \E p \in Procs : addToStoreAborted(p)
    \/ \E p \in Procs : substitutionGoalUnlocked(p)
    \/ \E p \in Procs : substitutionGoalKilled(p)

SpecLocks == LocksInit /\ [][LocksNext]_vars

(***************************************************************************)
(* The build farm: build-remote.pl processes that share the directory      *)
(* NIX_CURRENT_LOAD.  A step is one system call on a lock file (flock,     *)
(* close) or one exchange with the caller or the remote machine.           *)
(***************************************************************************)
Hooks == {"H1", "H2", "H3"}

\* The lines of NIX_REMOTE_SYSTEMS, in the order of the file.
Machines ==
    << [hostName |-> "m1", systemTypes |-> {"i686-linux"}, maxJobs |-> 1,
        speedFactor |-> 1],
       [hostName |-> "m2", systemTypes |-> {"i686-linux"}, maxJobs |-> 2,
        speedFactor |-> 2],
       [hostName |-> "m3", systemTypes |-> {"powerpc-darwin"}, maxJobs |-> 1,
        speedFactor |-> 1] >>

neededSystem == "i686-linux"

\* The lock files $currentLoad/<systemTypes>-<hostName>-<slot>.
Slots == {<<i, n>> \in (1..Len(Machines)) \X (0..2) : n < Machines[i].maxJobs}

NoSlot == <<>>

\* A hook process that has read the list of machines.
NewHook ==
    [pc |-> "start", enabled |-> 1..Len(Machines), cur |-> 0, slot |-> 0,
     load |-> 0, free |-> -1, available |-> <<>>, rightType |-> FALSE,
     machine |-> 0, selected |-> NoSlot, slotLock |-> NoSlot, reply |-> "none"]

FarmInit ==
    /\ farm = [mainLock |-> "none",
               locks |-> [k \in Slots |-> "none"],
               hook |-> [h \in Hooks |-> NewHook]]
    /\ db = EmptyDB
    /\ disk = {}
    /\ txn = NoTxn
    /\ bld = Idle
    /\ sbt = Idle
    /\ nOps = 0
    /\ wk = NoWorker
    /\ procs = NoProcs
    /\ glob = Opened

\* The next machine after line i that is enabled and of the needed type.
nextMachine(enabled, i) ==
    LET js == {j \in enabled : j > i /\ neededSystem \in Machines[j].systemTypes}
    IN  IF js = {} THEN 0 ELSE CHOOSE j \in js : \A k \in js : j <= k

\* sub lf: int($x->{load} / speedFactor + 0.4999)
lf(x) ==
    (x.load * 10000 + 4999 * Machines[x.machine].speedFactor)
        \div (10000 * Machines[x.machine].speedFactor)

\* The comparison of the sort: load factor, then speed factor (descending),
\* then load.
before(a, b) ==
    \/ lf(a) < lf(b)
    \/ /\ lf(a) = lf(b)
       /\ \/ Machines[a.machine].speedFactor > Machines[b.machine].speedFactor
          \/ /\ Machines[a.machine].speedFactor = Machines[b.machine].speedFactor
             /\ a.load < b.load

\* $available[0] after the sort.
selectBest(available) ==
    available[CHOOSE i \in 1..Len(available) :
                 \A j \in 1..Len(available) :
                     /\ ~before(available[j], available[i])
                     /\ (j < i => before(available[i], available[j]))]

\* The end of the loop over the machines: postpone or decline and exit if
\* no machine is available, otherwise select the best one.
endScan(r) ==
    IF r.available = <<>>
    THEN [r EXCEPT !.pc = "exited",
                   !.reply = IF r.rightType THEN "postpone" ELSE "decline"]
    ELSE LET selected == selectBest(r.available)
         IN  [r EXCEPT !.pc = "selected", !.machine = selected.machine,
                       !.selected = <<selected.machine, selected.free>>]

\* The loop over the machines goes to machine j (0: there is none left).
scanMachine(r, j) ==
    IF j = 0 THEN endScan(r)
    ELSE [r EXCEPT !.pc = "scan", !.rightType = TRUE, !.cur = j, !.slot = 0,
                   !.load = 0, !.free = -1]

\* The top of while (1).
startScan(r) ==
    scanMachine([r EXCEPT !.available = <<>>, !.rightType = FALSE],
                nextMachine(r.enabled, 0))

\* $slot++ and what follows it.
nextSlot(r) ==
    IF r.slot + 1 < Machines[r.cur].maxJobs
    THEN [r EXCEPT !.slot = @ + 1, !.pc = "scan"]
    ELSE LET r1 == IF r.load < Machines[r.cur].maxJobs
                   THEN [r EXCEPT !.available =
                            Append(@, [machine |-> r.cur, load |-> r.load,
                                       free |-> r.free])]
                   ELSE r
         IN  scanMachine(r1, nextMachine(r.enabled, r.cur))

\* The locks of a process are released when it exits.
released(f, h) ==
    [f EXCEPT !.mainLock = IF @ = h THEN "none" ELSE @,
              !.locks = [k \in Slots |-> IF f.locks[k] = h THEN "none" ELSE f.locks[k]]]

\* The process goes on as r; if it has exited, its locks are gone.
hookStep(f, h, r) ==
    LET f1 == [f EXCEPT !.hook[h] = r]
    IN  IF r.pc = "exited"
        THEN released([f1 EXCEPT !.hook[h].slotLock = NoSlot], h)
        ELSE f1

FarmUnchanged == UNCHANGED <<db, disk, txn, bld, sbt, nOps, wk, procs, glob>>

\* flock(MAINLOCK, LOCK_EX), which waits for the lock.
lockMainLock(h) ==
    /\ farm.hook[h].pc = "start"
    /\ farm.mainLock = "none"
    /\ farm' = hookStep([farm EXCEPT !.mainLock = h], h, startScan(farm.hook[h]))
    /\ FarmUnchanged

\* flock($slotLock, LOCK_EX | LOCK_NB) in the loop over the slots.
testSlotLock(h) ==
    /\ farm.hook[h].pc = "scan"
    /\ LET r == farm.hook[h]
           k == <<r.cur, r.slot>>
       IN  IF farm.locks[k] = "none"
           THEN farm' = [farm EXCEPT
                    !.locks[k] = h,
                    !.hook[h] = [r EXCEPT !.pc = "unlock",
                                          !.free = IF @ = -1 THEN r.slot ELSE @]]
           ELSE farm' = hookStep(farm, h, nextSlot([r EXCEPT !.load = @ + 1]))
    /\ FarmUnchanged

\* flock($slotLock, LOCK_UN) and close $slotLock.
unlockSlotLock(h) ==
    /\ farm.hook[h].pc = "unlock"
    /\ LET r == farm.hook[h]
           k == <<r.cur, r.slot>>
       IN  farm' = hookStep([farm EXCEPT !.locks[k] = "none"], h, nextSlot(r))
    /\ FarmUnchanged

\* The lock of the selected slot that is taken whether or not another
\* process holds it.
lockSelectedSlot_unchecked(h) ==
    /\ farm.hook[h].pc = "selected"
    /\ LET r == farm.hook[h]
           f == [farm EXCEPT !.locks =
                    [k \in Slots |-> IF k = r.slotLock /\ farm.locks[k] = h
                                     THEN "none" ELSE farm.locks[k]]]
       IN  farm' = [f EXCEPT
                 !.locks[r.selected] = h,
                 !.mainLock = IF @ = h THEN "none" ELSE @,
                 !.hook[h] = [r EXCEPT !.pc = "connecting",
                                       !.slotLock = r.selected]]
    /\ FarmUnchanged

\* $slotLock = openSlotLock(...), which closes the lock file of the
\* iteration before; flock($slotLock, LOCK_EX | LOCK_NB) or die; close
\* MAINLOCK.
lockSelectedSlot(h) ==
    /\ farm.hook[h].pc = "selected"
    /\ LET r == farm.hook[h]
           f == [farm EXCEPT !.locks =
                    [k \in Slots |-> IF k = r.slotLock /\ farm.locks[k] = h
                                     THEN "none" ELSE farm.locks[k]]]
       IN  IF f.locks[r.selected] = "none"
           THEN farm' = [f EXCEPT
                    !.locks[r.selected] = h,
                    !.mainLock = IF @ = h THEN "none" ELSE @,
                    !.hook[h] = [r EXCEPT !.pc = "connecting",
                                          !.slotLock = r.selected]]
           ELSE farm' = hookStep(f, h, [r EXCEPT !.pc = "exited", !.reply = "died"])
    /\ FarmUnchanged

\* openSSHConnection $hostName: on success the hook sends "accept", on
\* failure it disables the machine and looks for another one.
openSSHConnection(h, ok) ==
    /\ farm.hook[h].pc = "connecting"
    /\ LET r == farm.hook[h]
       IN  IF ok
           THEN farm' = [farm EXCEPT !.hook[h] =
                            [r EXCEPT !.pc = "accepted", !.reply = "accept"]]
           ELSE farm' = hookStep(farm, h,
                            startScan([r EXCEPT !.enabled = @ \ {r.machine}]))
    /\ FarmUnchanged

\* my $x = <STDIN>: the caller answers "okay" or something else.
readAnswer(h, x) ==
    /\ farm.hook[h].pc = "accepted"
    /\ farm' = hookStep(farm, h,
                   [farm.hook[h] EXCEPT !.pc = IF x = "okay" THEN "building"
                                               ELSE "exited"])
    /\ FarmUnchanged

\* The build on the remote machine ends and the hook exits.
buildEnds(h) ==
    /\ farm.hook[h].pc = "building"
    /\ farm' = hookStep(farm, h, [farm.hook[h] EXCEPT !.pc = "exited"])
    /\ FarmUnchanged

\* The hook dies before it has accepted.
hookDies(h) ==
    /\ farm.hook[h].pc \in {"scan", "unlock", "selected", "connecting"}
    /\ farm' = hookStep(farm, h, [farm.hook[h] EXCEPT !.pc = "exited",
                                                      !.reply = "died"])
    /\ FarmUnchanged

\* Nix calls the build hook again.
hookStarts(h) ==
    /\ farm.hook[h].pc = "exited"
    /\ farm' = [farm EXCEPT !.hook[h] = NewHook]
    /\ FarmUnchanged

FarmNext ==
    \/ \E h \in Hooks : lockMainLock(h)
    \/ \E h \in Hooks : testSlotLock(h)
    \/ \E h \in Hooks : unlockSlotLock(h)
    \/ \E h \in Hooks : lockSelectedSlot(h)
    \/ \E h \in Hooks, ok \in BOOLEAN : openSSHConnection(h, ok)
    \/ \E h \in Hooks, x \in {"okay", "cancel"} : readAnswer(h, x)
    \/ \E h \in Hooks : buildEnds(h)
    \/ \E h \in Hooks : hookDies(h)
    \/ \E h \in Hooks : hookStarts(h)

SpecFarm == FarmInit /\ [][FarmNext]_vars

(***************************************************************************)
(* Properties of the metadata store.                                       *)
(***************************************************************************)

\* C1: closure invariant. In every committed state, every path listed in
\* references[P] of a valid path P is itself valid.
C1_ClosureInvariant ==
    \A p \in db.validPaths : db.references[p] \subseteq db.validPaths

\* C2: reference/referrer symmetry. In every committed state, Q is in
\* references[P] if and only if P is in referers[Q].
C2_ReferenceSymmetry ==
    \A p, q \in Paths : (q \in db.references[p]) <=> (p \in db.referers[q])

\* C3: registration of a derivation's outputs is atomic. Every step of the
\* build between prepareBuild and the end of computeClosure (a round of the
\* registration loop, the commit, a crash) makes none or all of the
\* derivation's outputs valid in the committed tables.
C3_AtomicRegistration ==
    [][(bld.pc \in {"building", "registering"} /\ bld' # bld) =>
          LET newly == (outputPaths(bld.drv) \cap db'.validPaths) \ db.validPaths
          IN  newly = {} \/ newly = outputPaths(bld.drv)]_vars

\* The build crashed after the first output was written to the transaction
\* and before the commit: no output is observed as valid.
C3_Witness ==
    /\ bld.pc = "crashed"
    /\ bld.i = 2
    /\ outputPaths(bld.drv) \cap db.validPaths = {}

\* C14: deleteFromStore(P) on a valid path P that is in references[Q] of
\* another valid path Q fails and leaves the committed tables and the files
\* of P as they were.
C14_DeleteInUseRefused ==
    [][\A p \in StorePaths \cup StoreDrvs :
          (/\ deleteFromStore(p)
           /\ isValidPathTxn(db, p)
           /\ \E q \in db.validPaths \ {p} : p \in db.references[q])
              => (db' = db /\ disk' = disk)]_vars

\* C15: the substitute list of a path never holds two equal substitutes
\* (equal program and arguments); registering a substitute that is already
\* in the list leaves a single entry of it.
C15_SubstitutesDeduplicated ==
    \A p \in Paths :
        \A i, j \in 1..Len(db.substitutes[p]) :
            i # j => ~SubstEq(db.substitutes[p][i], db.substitutes[p][j])

\* C16: cleanup invariant. In every committed state, a path that has a
\* non-empty entry in the references, referers or derivers table is usable:
\* it is valid or has at least one substitute.
C16_CleanupInvariant ==
    \A p \in Paths :
        (db.references[p] # {} \/ db.referers[p] # {} \/ db.derivers[p] # "")
            => isRealisablePath(db, p)

\* The store operations of this process that change the store.
MutatingOperation ==
    \/ \E p \in SrcPaths : addToStore(p)
    \/ \E p \in StoreDrvs, refs \in SUBSET SrcPaths : addTextToStore(p, refs)
    \/ \E p \in StorePaths, refs \in SUBSET StorePaths : SetReferences(p, refs)
    \/ \E p \in SubstitutablePaths, sub \in Substitutes : RegisterSubstitute(p, sub)
    \/ clearSubstitutes
    \/ \E p \in StorePaths \cup StoreDrvs : deleteFromStore(p)

C4_SuccessMeansValid ==
    \A f \in wk.finished : f.success => GoalLockPaths(f.goal) \subseteq db.validPaths

\* A derivation goal with two outputs has just registered the outputs of
\* its builder and finished with success.
C4_Witness ==
    /\ wk.last.act = "work" /\ wk.last.state = "buildDone"
    /\ [goal |-> wk.last.goal, success |-> TRUE] \in wk.finished
    /\ Cardinality(outputPaths(wk.last.goal.p)) > 1

\* C5: at most one process at a time has a running builder or substitute
\* (or a copy of addToStore) that produces a given store path, and such a
\* child was forked while its process held the locks on all the paths it
\* produces and after these paths had been found invalid under the lock.
C5_OneProducerPerPath ==
    /\ \A q \in Paths :
          Cardinality({p \in Procs : procs[p].child
                                     /\ q \in GoalLockPaths(procs[p].goal)}) <= 1
    /\ \A p \in Procs :
          procs[p].child => (procs[p].forkLocked /\ procs[p].forkInvalid)

\* C6: inside one Worker no two goals hold the lock on the same store path
\* at the same time, two derivations with the same output path included.
C6_OneGoalPerLock ==
    \A g1, g2 \in GoalIds :
        (g1 # g2 /\ wk.goal[g1].alive /\ wk.goal[g2].alive)
            => wk.goal[g1].locks \cap wk.goal[g2].locks = {}

\* C7: the number of children that occupy a build slot never exceeds
\* maxBuildJobs; the children of the build hook are registered with
\* inBuildSlot = false and are not counted.
C7_BuildSlots ==
    /\ wk.nrChildren <= wk.maxBuildJobs
    /\ wk.nrChildren = Cardinality({c \in wk.children : c.inBuildSlot})
    /\ \A c \in wk.children : c.kind = "hook" => ~c.inBuildSlot

\* All build slots are taken while a child of the build hook runs as well.
C7_Witness ==
    /\ wk.nrChildren = wk.maxBuildJobs /\ wk.maxBuildJobs >= 1
    /\ \E c \in wk.children : c.kind = "hook"

\* C8 as stated: when the state function of a goal is called, every waitee
\* the goal added before it suspended has completed.
C8_ResumedAfterAllWaitees ==
    wk.last.act = "work" => wk.last.pending = {}

\* C8, amended: when the state function of a goal is called, every waitee
\* the goal added before it suspended has completed, or keepGoing is off
\* and one of its waitees has failed (the goal then gives up the others).
C8_ResumedAfterWaiteesOrFailure ==
    wk.last.act = "work" =>
        \/ wk.last.pending = {}
        \/ (~wk.keepGoing /\ wk.last.nrFailed > 0)

\* A goal is resumed while waitees it added are still outstanding, because
\* one of them failed and keepGoing is off.
C8_Witness ==
    /\ wk.last.act = "work"
    /\ wk.last.pending # {}
    /\ wk.last.nrFailed > 0
    /\ ~wk.keepGoing

\* C9: with maxBuildJobs >= 1 Worker::run does not stop inside its main
\* loop: it does not end in a failed assertion with goals left, and when it
\* is over the set of top-level goals is empty.
C9_LeavesLoopWhenDone ==
    (wk.maxBuildJobs >= 1 /\ wk.run \in {"returned", "aborted"})
        => (wk.run = "returned" /\ wk.topGoals = {})

\* C10: Worker::run returns true if and only if every top-level goal
\* finished with success, and buildDerivations / ensurePath raise their
\* error exactly when it returns false.
C10_RunResult ==
    wk.run = "returned" =>
        /\ (wk.ret = "true") <=>
              (\A g \in wk.goal[PseudoGoal].waitees : wk.goal[g].exit = "success")
        /\ (wk.result = "error") <=> (wk.ret = "false")

\* A run of two top-level goals returns false: one of them succeeded, the
\* other one failed.
C10_Witness ==
    /\ wk.run = "returned" /\ wk.ret = "false" /\ wk.result = "error"
    /\ \E g1, g2 \in wk.goal[PseudoGoal].waitees :
          wk.goal[g1].exit = "success" /\ wk.goal[g2].exit = "failure"

\* C11: with keepGoing on, a builder that exits with a non-zero status or
\* leaves invalid outputs (an output path is missing, the content of a
\* fixed output does not have the declared hash or is not a non-executable
\* regular file) makes its derivation goal finish with amDone(false), and
\* the run goes on for the other goals.
C11_BuildFailureIsNonFatal ==
    (/\ wk.keepGoing
     /\ wk.last.act = "work" /\ wk.last.state = "buildDone"
     /\ \/ wk.last.status = "fail"
        \/ ~(outputPaths(wk.last.goal.p) \subseteq disk)
        \/ ~fixedOutputsOk(wk, wk.last.goal))
        => /\ [goal |-> wk.last.goal, success |-> FALSE] \in wk.finished
           /\ wk.run = "loop"

\* C12: with keepGoing off, once a goal has failed no other goal of the
\* run starts a builder or a substitute, and Worker::run does not wait for
\* children any more.
C12_FailureCancelsSiblings ==
    (/\ ~wk.keepGoing
     /\ wk.run = "loop"
     /\ \E g \in GoalIds : wk.goal[g].alive /\ wk.goal[g].exit = "failure")
        => /\ \A f \in wk.forked : f.kind \notin {"builder", "substituter"}
           /\ wk.last.act # "select"

\* C13: a call of buildDone makes paths valid only if the child exited
\* with status ok, every output path of the derivation exists, and the
\* fixed outputs pass the check of their content; the paths it makes valid
\* are outputs of the derivation.  Otherwise it registers nothing.
C13_RegisteredOnlyIfBuilt ==
    [][(wk'.last.act = "work" /\ wk'.last.state = "buildDone"
        /\ db'.validPaths # db.validPaths)
          => /\ wk'.last.status = "ok"
             /\ outputPaths(wk'.last.goal.p) \subseteq disk
             /\ fixedOutputsOk(wk, wk'.last.goal)
             /\ db'.validPaths \ db.validPaths \subseteq outputPaths(wk'.last.goal.p)]_vars

\* buildDone has registered the output of a fixed-output derivation after
\* the check of its content and has finished the goal with success.
C13_Witness ==
    /\ wk.last.act = "work" /\ wk.last.state = "buildDone"
    /\ Derivations[wk.last.goal.p].fixed
    /\ [goal |-> wk.last.goal, success |-> TRUE] \in wk.finished
    /\ outputPaths(wk.last.goal.p) \subseteq db.validPaths

\* C17: closure before self. A substitution goal forks a substitute for
\* its path, and registers its path as valid, only when every path of the
\* references it read in init is valid.
C17_ClosureBeforeSelf ==
    /\ \A f \in wk.forked :
          f.kind = "substituter" =>
              wk.goal[f.goal].references \subseteq db.validPaths
    /\ \A c \in wk.children :
          c.kind = "substituter" =>
              wk.goal[c.goal].references \subseteq db.validPaths
    /\ (/\ wk.last.act = "work" /\ wk.last.state = "finished"
        /\ [goal |-> wk.last.goal, success |-> TRUE] \in wk.finished)
          => wk.last.references \subseteq db.validPaths

\* A substitute has just been forked for a2 in a run that started with a1,
\* a reference of a2, not valid.
C17_Witness ==
    /\ [goal |-> SubGoal("a2"), kind |-> "substituter"] \in wk.forked
    /\ "a1" \in wk.goal[SubGoal("a2")].references
    /\ Len(db.substitutes["a1"]) > 0

\* C18: a substitution goal runs the substitutes of its path one at a time
\* in the order of the list.  When the substitute program exits with a
\* non-zero status or does not produce the path, the goal goes on to
\* tryNext; it finishes with failure only when every substitute of the list
\* has been run, and with success as soon as one has produced the path.
C18_SubstitutesInOrder ==
    /\ \A q \in Paths :
          /\ Len(wk.subLog[q].tried) <= Len(wk.subLog[q].read)
          /\ wk.subLog[q].tried =
                SubSeq(wk.subLog[q].read, 1, Len(wk.subLog[q].tried))
    /\ \A f \in wk.finished :
          (f.goal.k = "sub" /\ ~f.success)
              => wk.subLog[f.goal.p].tried = wk.subLog[f.goal.p].read
    /\ (wk.run = "loop" /\ wk.last.act = "work" /\ wk.last.state = "finished")
          => IF wk.last.status = "ok" /\ wk.last.goal.p \in disk
             THEN [goal |-> wk.last.goal, success |-> TRUE] \in wk.finished
             ELSE /\ wk.finished = {}
                  /\ wk.goal[wk.last.goal].state = "tryNext"
                  /\ wk.last.goal \in wk.awake

\* The goal of b finishes with failure after both of its substitutes have
\* been run, the first of the list first.
C18_Witness ==
    /\ [goal |-> SubGoal("b"), success |-> FALSE] \in wk.finished
    /\ wk.subLog["b"].tried = InitialSubs("b")
    /\ Len(wk.subLog["b"].tried) = 2

\* C19: the step in which a substitution goal registers its path P as
\* valid leaves references[P] as it was, and that is the set of references
\* the goal read from the database in init, before the substitute ran.
C19_DeclaredReferencesKept ==
    [][(/\ wk'.last.act = "work" /\ wk'.last.state = "finished"
        /\ [goal |-> wk'.last.goal, success |-> TRUE] \in wk'.finished)
          => /\ wk'.last.goal.p \in db'.validPaths \ db.validPaths
             /\ db'.references[wk'.last.goal.p] = db.references[wk'.last.goal.p]
             /\ db'.references[wk'.last.goal.p] = wk'.last.references]_vars

\* A substitution goal has registered a path that has declared references.
C19_Witness ==
    /\ wk.last.act = "work" /\ wk.last.state = "finished"
    /\ [goal |-> wk.last.goal, success |-> TRUE] \in wk.finished
    /\ wk.last.goal.p \in db.validPaths
    /\ db.references[wk.last.goal.p] # {}

\* C20: a substitution goal whose path is not valid and has no substitutes
\* finishes with amDone(false), which its waiters see as a failed waitee,
\* and Worker::run goes on.
C20_UnsubstitutableFailsGoal ==
    (/\ wk.last.act = "work" /\ wk.last.goal.k = "sub" /\ wk.last.state = "init"
     /\ ~isRealisablePath(db, wk.last.goal.p))
        => /\ [goal |-> wk.last.goal, success |-> FALSE] \in wk.finished
           /\ wk.run = "loop"

\* C21: when outputsSubstituted is called after the substitution of an
\* output has failed and tryFallback is not set, the derivation goal
\* finishes with amDone(false), its waiters are notified, the run goes on
\* and no builder is forked for it.
C21_FailedSubstitutionFailsGoal ==
    (/\ wk.last.act = "work" /\ wk.last.state = "outputsSubstituted"
     /\ wk.last.nrFailed > 0 /\ ~wk.tryFallback)
        => /\ [goal |-> wk.last.goal, success |-> FALSE] \in wk.finished
           /\ wk.run = "loop"
           /\ wk.forked = {}

\* C22: a step of the run in which a child is reaped (a builder, a
\* substitute or a build hook, the hook that terminateBuildHook reaps
\* included) wakes every goal that was parked in wantingToBuild.
C22_ChildExitWakesParked ==
    [][(/\ wk.run = "loop" /\ wk'.run = "loop"
        /\ \/ \E c \in wk.children :
                 ~\E c2 \in wk'.children : c2.goal = c.goal /\ c2.kind = c.kind
           \/ \E f \in wk'.forked :
                 ~\E c2 \in wk'.children : c2.goal = f.goal /\ c2.kind = f.kind)
          => \A g \in wk.wantingToBuild :
                wk'.goal[g].alive => g \in wk'.awake]_vars

\* C23: when the build hook answers 'postpone' for a derivation and no
\* other child of the worker is running, Worker::run is left by an error
\* and the goal is not parked; when other children are running, the goal is
\* parked in wantingToBuild in state tryToBuild, so that it asks the hook
\* again when it is woken.
C23_PostponeNeedsChildren ==
    (/\ wk.last.act = "work" /\ wk.last.state = "tryToBuild"
     /\ wk.last.hookReply = "postpone")
        => IF wk.children = {}
           THEN wk.run = "threw" /\ wk.last.goal \notin wk.wantingToBuild
           ELSE /\ wk.run = "loop"
                /\ wk.last.goal \in wk.wantingToBuild
                /\ wk.last.goal \notin wk.awake
                /\ wk.goal[wk.last.goal].state = "tryToBuild"
                /\ ~hasChild(wk, wk.last.goal)

\* The hook has answered 'postpone' for a goal while another child of the
\* worker is running: the goal is parked.
C23_Witness ==
    /\ wk.last.act = "work" /\ wk.last.state = "tryToBuild"
    /\ wk.last.hookReply = "postpone"
    /\ wk.children # {}
    /\ wk.last.goal \in wk.wantingToBuild

\* C24: when the build hook answers 'accept' for a derivation, the goal
\* forks no builder.  If the outputs are all valid by then, the goal
\* finishes with success, the hook is reaped and nothing is registered;
\* if they are not, the goal waits in buildDone for the hook to exit.  When
\* the hook has exited with status ok and every output is there, buildDone
\* registers all outputs.
C24_AcceptedByHook ==
    [][/\ (/\ wk'.last.act = "work" /\ wk'.last.state = "tryToBuild"
           /\ wk'.last.hookReply = "accept" /\ wk'.run = "loop")
             => /\ \A f \in wk'.forked : f.kind # "builder"
                /\ db' = db
                /\ IF outputPaths(wk'.last.goal.p) \subseteq db.validPaths
                   THEN /\ [goal |-> wk'.last.goal, success |-> TRUE] \in wk'.finished
                        /\ ~hasChild(wk', wk'.last.goal)
                   ELSE /\ wk'.finished = {}
                        /\ wk'.goal[wk'.last.goal].state = "buildDone"
                        /\ hasChild(wk', wk'.last.goal)
                        /\ childOf(wk', wk'.last.goal).kind = "hook"
       /\ (/\ wk'.last.act = "work" /\ wk'.last.state = "buildDone"
           /\ wk'.last.child = "hook" /\ wk'.run = "loop"
           /\ wk'.last.status = "ok"
           /\ outputPaths(wk'.last.goal.p) \subseteq disk
           /\ fixedOutputsOk(wk, wk'.last.goal))
             => /\ outputPaths(wk'.last.goal.p) \subseteq db'.validPaths
                /\ [goal |-> wk'.last.goal, success |-> TRUE] \in wk'.finished
                /\ wk'.forked = {}]_vars

\* The hook accepted the derivation with two outputs and exited; buildDone
\* has registered both outputs, which were not valid before the run.
C24_Witness ==
    /\ wk.last.act = "work" /\ wk.last.state = "buildDone"
    /\ wk.last.child = "hook"
    /\ [goal |-> DrvGoal("dA"), success |-> TRUE] \in wk.finished
    /\ outputPaths("dA") \subseteq db.validPaths

\* C25: when a derivation goal is resumed in outputsSubstituted, none of
\* the substitution goals of its outputs has failed, and every output is
\* valid or has a registered substitute, then the outputs are all valid and
\* the goal finishes with success in that step: the step creates no goal
\* (so none for the inputs), forks no child and registers nothing itself.
C25_SubstitutedOutputsSuffice ==
    [][(/\ wk'.last.act = "work" /\ wk'.last.state = "outputsSubstituted"
        /\ wk'.last.goal.k = "drv"
        /\ wk'.last.nrFailed = 0
        /\ \A o \in outputPaths(wk'.last.goal.p) :
              o \in db.validPaths \/ Len(querySubstitutes(db, o)) > 0)
          => /\ outputPaths(wk'.last.goal.p) \subseteq db.validPaths
             /\ [goal |-> wk'.last.goal, success |-> TRUE] \in wk'.finished
             /\ wk'.run = "loop"
             /\ wk'.forked = {}
             /\ db' = db
             /\ \A h \in DOMAIN wk.goal : wk'.goal[h].alive => wk.goal[h].alive]_vars

\* The derivation with two outputs has finished in outputsSubstituted after
\* a substitute of its output a1 was run, and neither a goal for one of its
\* inputs nor a builder has been made in the run.
C25_Witness ==
    /\ wk.last.act = "work" /\ wk.last.state = "outputsSubstituted"
    /\ wk.last.goal = DrvGoal("dA")
    /\ [goal |-> DrvGoal("dA"), success |-> TRUE] \in wk.finished
    /\ Len(wk.subLog["a1"].tried) > 0
    /\ outputPaths("dA") \subseteq db.validPaths
    /\ \A i \in Derivations["dA"].inputSrcs : wk.subLog[i] = NoSubLog

\* C26: when a substitution goal of a path has finished with success and
\* the substitute it ran last names a deriver, queryDeriver of the path
\* returns that deriver.
C26_DeriverSurvivesSubstitution ==
    (/\ wk.last.act = "work" /\ wk.last.goal.k = "sub"
     /\ wk.last.state = "finished"
     /\ [goal |-> wk.last.goal, success |-> TRUE] \in wk.finished
     /\ Len(wk.subLog[wk.last.goal.p].tried) > 0)
        => LET tried == wk.subLog[wk.last.goal.p].tried
               sub == tried[Len(tried)]
           IN  sub.deriver # "" => queryDeriver(db, wk.last.goal.p) = sub.deriver

\* The call of addToStore by process p has returned.
addToStoreReturned(p) == procs[p].pc = "done" /\ procs[p].goal.k = "add"

\* C28 as claimed: two calls of addToStore on sources of the same contents
\* return the same store path, and a call whose store path is valid, in
\* one process or in two at the same time, changes neither the store files
\* nor the tables.
C28_AddToStoreSameContents ==
    [][/\ \A p1, p2 \in Procs :
            (/\ addToStoreReturned(p1)' /\ addToStoreReturned(p2)'
             /\ procs'[p1].src.contents = procs'[p2].src.contents)
                => procs'[p1].goal.p = procs'[p2].goal.p
       /\ \A p \in Procs :
            (/\ procs'[p] # procs[p]
             /\ procs'[p].goal.k = "add"
             /\ procs'[p].goal.p \in db.validPaths)
                => db' = db /\ disk' = disk]_vars

\* C28 amended: two calls of addToStore on sources of the same contents and
\* the same base name return the same store path, and a call whose store
\* path is valid, in one process or in two at the same time, changes
\* neither the store files nor the tables.
C28_AddToStoreSameSource ==
    [][/\ \A p1, p2 \in Procs :
            (/\ addToStoreReturned(p1)' /\ addToStoreReturned(p2)'
             /\ procs'[p1].src.contents = procs'[p2].src.contents
             /\ baseNameOf(procs'[p1].src.path) = baseNameOf(procs'[p2].src.path))
                => procs'[p1].goal.p = procs'[p2].goal.p
       /\ \A p \in Procs :
            (/\ procs'[p] # procs[p]
             /\ procs'[p].goal.k = "add"
             /\ procs'[p].goal.p \in db.validPaths)
                => db' = db /\ disk' = disk]_vars

\* Two processes have added two files of the same name and contents: P1
\* found the path valid at once, P2 found it valid once it had the lock
\* (no copy ran), and both returned the same path.
C28_Witness ==
    /\ addToStoreReturned("P1") /\ addToStoreReturned("P2")
    /\ procs["P1"].src.path # procs["P2"].src.path
    /\ procs["P1"].goal.p = procs["P2"].goal.p
    /\ procs["P1"].locks = {}
    /\ procs["P2"].locks # {} /\ procs["P2"].status = "none"
    /\ procs["P1"].goal.p \in db.validPaths

\* The hooks that have accepted a build on machine i.
acceptedOn(i) ==
    {h \in Hooks : farm.hook[h].pc \in {"accepted", "building"}
                   /\ farm.hook[h].machine = i}

\* C29: at any time the number of build-remote processes that have accepted
\* a build on a machine is at most the maxJobs of the machine, and no two
\* processes have the lock of the same slot of a machine.
C29_MachineLoadBounded ==
    /\ \A i \in 1..Len(Machines) : Cardinality(acceptedOn(i)) <= Machines[i].maxJobs
    /\ \A h1, h2 \in Hooks :
          (h1 # h2 /\ farm.hook[h1].slotLock # NoSlot)
             => farm.hook[h1].slotLock # farm.hook[h2].slotLock

\* Machine m2 with maxJobs 2 has two accepted builds, and the third hook,
\* which could not connect to m1, is looking again while it still has the
\* lock of the slot of m1 and no longer the main lock.
C29_Witness ==
    /\ Cardinality(acceptedOn(2)) = 2
    /\ \E h \in Hooks :
          /\ farm.hook[h].pc \in {"scan", "unlock"}
          /\ farm.hook[h].slotLock = <<1, 0>>
          /\ farm.mainLock # h

\* C30: when a goal w finishes in a step (amDone), every goal g among its
\* waiters (other than the pseudo goal of the run) has w among its waitees,
\* loses it, and counts a failure if w failed (unless g is destroyed in the
\* step because the goal that held it let go of it); g is woken if and only if no waitee is left or w failed with
\* keepGoing off, and then it has no waitees any more and is no longer among
\* the waiters of the ones that were left.  The nrFailed of a goal that is
\* neither the one that ran nor a waiter of the one that finished does not
\* change.
C30_WaiteeDone ==
    [][(wk.run = "loop" /\ wk'.run = "loop" /\ wk'.last.act = "work" /\ wk' # wk)
        => /\ \A f \in wk'.finished :
                \A g \in wk.goal[f.goal].waiters \ {PseudoGoal} :
                    LET left == wk.goal[g].waitees \ {f.goal}
                        woken == left = {} \/ (~f.success /\ ~wk.keepGoing)
                    IN  /\ f.goal \in wk.goal[g].waitees
                        /\ wk'.goal[g].alive =>
                              /\ wk'.goal[g].nrFailed =
                                    wk.goal[g].nrFailed + (IF f.success THEN 0 ELSE 1)
                              /\ (g \in wk'.awake) <=> woken
                              /\ wk'.goal[g].waitees = IF woken THEN {} ELSE left
                        /\ woken => \A x \in left : g \notin wk'.goal[x].waiters
                        /\ ~woken => wk'.goal[g].alive
           /\ \A g \in GoalIds :
                (/\ wk.goal[g].alive /\ wk'.goal[g].alive
                 /\ g # wk'.last.goal
                 /\ \A f \in wk'.finished : g \notin wk.goal[f.goal].waiters)
                    => wk'.goal[g].nrFailed = wk.goal[g].nrFailed]_vars

\* With keepGoing off a goal has been woken by the failure of a waitee and
\* cut off from another one, which has now finished without the goal being
\* told: the goal still waits for its turn with one failure counted.
C30_Witness ==
    /\ ~wk.keepGoing /\ wk.run = "loop"
    /\ \E f \in wk.finished, g \in GoalIds \ {PseudoGoal} :
          /\ ~f.success
          /\ wk.goal[g].alive /\ g \in wk.awake
          /\ wk.goal[g].waitees = {}
          /\ wk.goal[g].nrFailed = 1
          /\ \E x \in wk.goal[g].pending :
                /\ x # f.goal
                /\ wk.goal[x].alive
                /\ g \notin wk.goal[x].waiters
                /\ wk.goal[x].waiters # {}

\* C31: in a step that forks a builder or a substitute for a goal, none of
\* the paths of the goal is valid, and none of them exists in the file
\* system when the child starts: what was there has been deleted.
C31_NoForkOverStrayOrValid ==
    [][\A f \in wk'.forked :
          f.kind \in {"builder", "substituter"}
              => GoalLockPaths(f.goal) \cap (disk' \cup db'.validPaths) = {}]_vars

\* A builder has been forked by a goal that found an unregistered file at
\* one of its output paths, and the file is gone.
C31_Witness ==
    /\ wk.run = "loop" /\ wk.last.act = "work"
    /\ wk.last.stray # {}
    /\ [goal |-> wk.last.goal, kind |-> "builder"] \in wk.forked
    /\ wk.last.stray \cap disk = {}

\* C32: a step that invalidates a path (the path was valid and is no longer)
\* clears its references, takes it out of the referers of the paths it
\* referred to and clears its deriver when the path has no substitutes, and
\* leaves its references, those referers entries and its deriver as they
\* were when it has substitutes.
C32_InvalidationCleansUp ==
    [][\A p \in db.validPaths \ db'.validPaths :
          IF Len(querySubstitutes(db, p)) = 0
          THEN /\ db'.references[p] = {}
               /\ \A q \in db.references[p] : p \notin db'.referers[q]
               /\ db'.derivers[p] = ""
          ELSE /\ db'.references[p] = db.references[p]
               /\ \A q \in db.references[p] :
                     p \in db.referers[q] => p \in db'.referers[q]
               /\ db'.derivers[p] = db.derivers[p]]_vars

\* C33: a hook process that is in the loop over the slot locks, or has
\* selected a free slot and is about to lock it, holds the main lock, and
\* the slot it has selected is not locked by another hook process, so that
\* "flock ... or die" on the selected slot cannot fail.
C33_SelectionUnderMainLock ==
    \A h \in Hooks :
        /\ farm.hook[h].pc \in {"scan", "unlock", "selected"}
              => farm.mainLock = h
        /\ farm.hook[h].pc = "selected"
              => farm.locks[farm.hook[h].selected] \notin Hooks \ {h}

\* C34: no goal waits for a goal that has already called amDone: the
\* waitees of a living goal other than the pseudo goal (whose waitees are
\* never erased) are not done, so that each of them will still notify it.
C34_NoDoneWaitee ==
    wk # NoWorker =>
        \A g \in GoalIds \ {PseudoGoal} :
            wk.goal[g].alive => \A x \in wk.goal[g].waitees : ~wk.goal[x].done

\* C35: whenever Worker::run has drained the awake set and a top-level goal
\* is left, a child process is running to wait for: the assertion in front
\* of waitForInput holds.
C35_SomethingToWaitFor ==
    wk # NoWorker =>
        (Quiescent /\ wk.topGoals # {} => wk.children # {})

\* C36: a goal completes at most once.  A goal that is done is not awake,
\* so none of its state functions is called again, and the process does
\* not abort in a handler of a goal that is done, which is what a second
\* call of amDone, or a waiteeDone that fails beneath amDone, would do.
C36_CompletesOnce ==
    wk # NoWorker =>
        /\ \A g \in GoalIds : wk.goal[g].done => g \notin wk.awake \cup wk.awake2
        /\ wk.run = "aborted" /\ wk.last.act = "work"
              => ~wk.goal[wk.last.goal].done

\* A goal is done and still held, and the goal that has just been resumed
\* has added it as a waitee without waking it up.
C36_Witness ==
    /\ wk # NoWorker /\ wk.run = "loop" /\ wk.last.act = "work"
    /\ \E g \in GoalIds \ {PseudoGoal} :
          /\ wk.goal[g].alive /\ wk.goal[g].done
          /\ g \in wk.goal[wk.last.goal].waitees

\* C37: the links between goals are consistent: a goal that is in the
\* waiters of a goal w has w in its waitees.  The assertion at the start of
\* waiteeDone therefore holds: the process does not abort in a handler in
\* which a goal has called amDone and notified its waiters.
C37_LinksConsistent ==
    wk # NoWorker =>
        /\ \A w \in GoalIds : \A g \in wk.goal[w].waiters :
              w \in wk.goal[g].waitees
        /\ wk.run = "aborted" /\ wk.last.act = "work" => wk.finished = {}

\* With keepGoing set, a goal has just failed and was erased from the
\* waitees of a waiter, which has counted the failure and goes on waiting
\* for other goals, each of which still has it as a waiter.
C37_Witness ==
    /\ wk # NoWorker /\ wk.run = "loop" /\ wk.last.act = "work"
    /\ wk.keepGoing
    /\ \E f \in wk.finished, g \in GoalIds \ {PseudoGoal} :
          /\ ~f.success
          /\ wk.goal[g].alive
          /\ wk.goal[g].nrFailed = 1
          /\ f.goal \notin wk.goal[g].waitees
          /\ wk.goal[g].waitees # {}
          /\ g \notin wk.awake
          /\ \A w \in wk.goal[g].waitees : g \in wk.goal[w].waiters

\* C38: with keepGoing set, when Worker::run has left its main loop no goal
\* is awake, no goal is parked in wantingToBuild and no child is left: the
\* three assertions behind the loop hold and run returns.
C38_NothingLeftBehind ==
    wk # NoWorker /\ wk.keepGoing /\ wk.last.act = "leave" =>
        /\ wk.run = "returned"
        /\ wk.awake = {} /\ wk.awake2 = {}
        /\ wk.wantingToBuild = {}
        /\ wk.children = {}

\* With keepGoing set, run has returned false after one top-level goal
\* failed and another one succeeded.
C38_Witness ==
    /\ wk # NoWorker /\ wk.keepGoing
    /\ wk.last.act = "leave" /\ wk.run = "returned" /\ wk.ret = "false"
    /\ \E g, h \in GoalIds \ {PseudoGoal} :
          /\ wk.goal[g].alive /\ wk.goal[g].exit = "failure"
          /\ wk.goal[h].alive /\ wk.goal[h].exit = "success"

\* C39: once prepareBuild has gathered the inputs of a derivation (the goal
\* waits in buildDone), the set allPaths that the outputs are scanned for
\* is the outputs together with the whole input closure inputPaths, which
\* holds the closures of the input sources as well.
C39_AllPathsIsInputClosure ==
    wk # NoWorker =>
        \A d \in DrvPaths :
            wk.goal[DrvGoal(d)].alive /\ wk.goal[DrvGoal(d)].state = "buildDone"
                => wk.goal[DrvGoal(d)].allPaths =
                       outputPaths(d) \cup wk.goal[DrvGoal(d)].inputPaths

\* C40: the validity assertions of the goals hold.  A derivation goal that
\* is about to run haveStoreExpr with nrFailed = 0 has a valid drvPath, a
\* derivation goal that is about to run tryToBuild (and with it
\* prepareBuild) has valid input derivations, a substitution goal that is
\* about to run referencesValid with nrFailed = 0 has valid references, and
\* no handler of these states ends in a failed assertion.
C40_ValidityAssertionsHold ==
    wk # NoWorker =>
        /\ wk.run = "loop" =>
              /\ \A d \in DrvPaths :
                    /\ DrvGoal(d) \in wk.awake2
                    /\ wk.goal[DrvGoal(d)].state = "haveStoreExpr"
                    /\ wk.goal[DrvGoal(d)].nrFailed = 0
                    => isValidPathTxn(db, d)
              /\ \A d \in DrvPaths :
                    /\ DrvGoal(d) \in wk.awake2
                    /\ wk.goal[DrvGoal(d)].state = "tryToBuild"
                    => \A i \in Derivations[d].inputDrvs : isValidPathTxn(db, i)
              /\ \A q \in Paths :
                    /\ SubGoal(q) \in wk.awake2
                    /\ wk.goal[SubGoal(q)].state = "referencesValid"
                    /\ wk.goal[SubGoal(q)].nrFailed = 0
                    => \A r \in wk.goal[SubGoal(q)].references :
                           isValidPathTxn(db, r)
        /\ wk.run = "aborted" /\ wk.last.act = "work"
              => wk.last.state \notin {"init", "haveStoreExpr", "tryToBuild",
                                       "referencesValid"}

\* haveStoreExpr has run with nrFailed = 0 for a derivation that was not
\* valid when the run started and has been substituted, after the
\* substitution goal of the derivation passed referencesValid with a
\* reference to wait for.
C40_Witness ==
    /\ wk # NoWorker /\ wk.run = "loop" /\ wk.last.act = "work"
    /\ wk.last.goal = DrvGoal("dA")
    /\ wk.last.state = "haveStoreExpr" /\ wk.last.nrFailed = 0
    /\ "dB" \notin db.validPaths
    /\ {"dA"} \cup db.references["dA"] \subseteq db.validPaths
    /\ db.references["dA"] # {}

=============================================================================
